---- MODULE Spec2Model ----
(***************************************************************************)
(* mini-discord: channel-scoped append-only message store on ScyllaDB.     *)
(* The model follows src/src/index.ts (the two HTTP handlers),             *)
(* src/src/db.ts (identifier generator, dedup guard, repository) and       *)
(* src/dist/validators.js (input validation, consistency resolver).        *)
(*                                                                         *)
(* A handler is an async function: it runs synchronously up to an await,   *)
(* the storage executes the statement at some later moment, and the        *)
(* handler resumes with the result.  Each of these is one action, so that  *)
(* handlers of concurrent requests interleave at their awaits exactly as   *)
(* they do on the Node.js event loop.                                      *)
(***************************************************************************)
EXTENDS Integers, Sequences, FiniteSets, TLC

(***************************************************************************)
(* Bounds of the model.                                                    *)
(***************************************************************************)
MaxPosts == 2
MaxClock == 2
MaxTicks == 1
MaxRows == 3
PagerPosts == 2
MaxPages == 3

Greatest(S) == CHOOSE x \in S : \A y \in S : y <= x

PostIds == 1..Greatest({MaxPosts, PagerPosts})
GetIds == 1..MaxPages

(***************************************************************************)
(* JavaScript values.  A value is a record [t, s]: t is the type tag and   *)
(* s the characters of a string (empty for the other types).               *)
(***************************************************************************)
Undefined == [t |-> "undefined", s |-> <<>>]
Null == [t |-> "null", s |-> <<>>]
NotAString == [t |-> "number", s |-> <<>>]
Str(chars) == [t |-> "string", s |-> chars]

IsString(v) == v.t = "string"
Truthy(v) == \/ v.t = "number"
             \/ v.t = "string" /\ Len(v.s) > 0

RECURSIVE TrimLeft(_)
TrimLeft(s) == IF s # <<>> /\ Head(s) = " " THEN TrimLeft(Tail(s)) ELSE s

RECURSIVE TrimRight(_)
TrimRight(s) == IF s # <<>> /\ s[Len(s)] = " "
                THEN TrimRight(SubSeq(s, 1, Len(s) - 1)) ELSE s

\* String.prototype.trim
Trim(s) == TrimRight(TrimLeft(s))

\* body.field?.trim(): undefined stays undefined
OptTrim(v) == IF v.t = "undefined" THEN Undefined ELSE Str(Trim(v.s))

(***************************************************************************)
(* Letter case (String.prototype.toUpperCase / toLowerCase).               *)
(***************************************************************************)
LowerLetters == <<"a","b","c","d","e","f","g","h","i","j","k","l","m",
                  "n","o","p","q","r","s","t","u","v","w","x","y","z">>
UpperLetters == <<"A","B","C","D","E","F","G","H","I","J","K","L","M",
                  "N","O","P","Q","R","S","T","U","V","W","X","Y","Z">>

IndexIn(c, letters) ==
    IF \E i \in 1..Len(letters) : letters[i] = c
    THEN CHOOSE i \in 1..Len(letters) : letters[i] = c
    ELSE 0

UpperChar(c) == IF IndexIn(c, LowerLetters) > 0
                THEN UpperLetters[IndexIn(c, LowerLetters)] ELSE c
LowerChar(c) == IF IndexIn(c, UpperLetters) > 0
                THEN LowerLetters[IndexIn(c, UpperLetters)] ELSE c

toUpperCase(s) == [i \in 1..Len(s) |-> UpperChar(s[i])]
toLowerCase(s) == [i \in 1..Len(s) |-> LowerChar(s[i])]

(***************************************************************************)
(* Consistency resolver (validators.js).                                   *)
(***************************************************************************)
ALLOWED_CONSISTENCIES ==
    { <<"A","N","Y">>, <<"O","N","E">>, <<"T","W","O">>,
      <<"T","H","R","E","E">>, <<"Q","U","O","R","U","M">>, <<"A","L","L">>,
      <<"L","O","C","A","L","_","O","N","E">>,
      <<"L","O","C","A","L","_","Q","U","O","R","U","M">> }

\* The keys of the driver's types.consistencies object.
ConsistencyKeys ==
    { <<"a","n","y">>, <<"o","n","e">>, <<"t","w","o">>,
      <<"t","h","r","e","e">>, <<"q","u","o","r","u","m">>, <<"a","l","l">>,
      <<"l","o","c","a","l","Q","u","o","r","u","m">>,
      <<"e","a","c","h","Q","u","o","r","u","m">>,
      <<"s","e","r","i","a","l">>,
      <<"l","o","c","a","l","S","e","r","i","a","l">>,
      <<"l","o","c","a","l","O","n","e">> }

\* types.consistencies[key]: the level of that name, undefined for any
\* other key.  A level is the number the driver assigns, named by its key.
consistencies(key) ==
    IF key \in ConsistencyKeys THEN [t |-> "number", s |-> key] ELSE Undefined

WarningText(token, default) ==
    Str(<<"Invalid consistency level '">> \o token
        \o <<"', using default '">> \o default \o <<"'">>)

\* validateConsistency(consistency), with envWrite the value of
\* process.env.DEFAULT_WRITE_CONSISTENCY.
validateConsistency(consistency, envWrite) ==
    LET defaultConsistency ==
            IF Truthy(envWrite) THEN envWrite.s ELSE <<"O","N","E">>
        defaultValue == consistencies(toLowerCase(defaultConsistency))
    IN  IF ~Truthy(consistency)
        THEN [value |-> defaultValue, warning |-> Undefined]
        ELSE IF toUpperCase(consistency.s) \notin ALLOWED_CONSISTENCIES
        THEN [value |-> defaultValue,
              warning |-> WarningText(consistency.s, defaultConsistency)]
        ELSE [value |-> consistencies(toLowerCase(consistency.s)),
              warning |-> Undefined]

(***************************************************************************)
(* validatePostMessage (validators.js).                                    *)
(***************************************************************************)
MaxIdLen == 100
MaxContentLen == 2000

FieldErrors(v, maxLen, missing, badLength) ==
    IF ~Truthy(v) \/ ~IsString(v) THEN <<missing>>
    ELSE IF Len(v.s) < 1 \/ Len(v.s) > maxLen THEN <<badLength>>
    ELSE <<>>

ClientMsgIdErrors(v) ==
    IF Truthy(v) /\ (~IsString(v) \/ Len(v.s) < 1 \/ Len(v.s) > MaxIdLen)
    THEN <<"client_msg_id must be a string between 1 and 100 characters">>
    ELSE <<>>

NoData == [channel_id |-> Undefined, user_id |-> Undefined,
           content |-> Undefined, consistency |-> Undefined,
           client_msg_id |-> Undefined]

\* threw: body.consistency?.trim() raises a TypeError when consistency is
\* present but not a string.
validatePostMessage(body) ==
    LET errors ==
            FieldErrors(body.channel_id, MaxIdLen,
                "channel_id is required and must be a string",
                "channel_id must be between 1 and 100 characters")
         \o FieldErrors(body.user_id, MaxIdLen,
                "user_id is required and must be a string",
                "user_id must be between 1 and 100 characters")
         \o FieldErrors(body.content, MaxContentLen,
                "content is required and must be a string",
                "content must be between 1 and 2000 characters")
         \o ClientMsgIdErrors(body.client_msg_id)
    IN  IF Len(errors) > 0
        THEN [valid |-> FALSE, threw |-> FALSE, errors |-> errors,
              data |-> NoData]
        ELSE IF body.consistency.t = "number"
        THEN [valid |-> FALSE, threw |-> TRUE, errors |-> <<>>,
              data |-> NoData]
        ELSE [valid |-> TRUE, threw |-> FALSE, errors |-> <<>>,
              data |-> [channel_id |-> Str(Trim(body.channel_id.s)),
                        user_id |-> Str(Trim(body.user_id.s)),
                        content |-> Str(Trim(body.content.s)),
                        consistency |-> OptTrim(body.consistency),
                        client_msg_id |-> OptTrim(body.client_msg_id)]]

(***************************************************************************)
(* validateGetMessages (validators.js).                                    *)
(***************************************************************************)
Digits == <<"0","1","2","3","4","5","6","7","8","9">>
IsDigit(c) == IndexIn(c, Digits) > 0
DigitValue(c) == IndexIn(c, Digits) - 1
Digit(n) == Digits[n + 1]

RECURSIVE LeadingDigits(_)
LeadingDigits(s) == IF s # <<>> /\ IsDigit(Head(s))
                    THEN <<Head(s)>> \o LeadingDigits(Tail(s)) ELSE <<>>

RECURSIVE DigitsValue(_)
DigitsValue(ds) == IF ds = <<>> THEN 0
                   ELSE 10 * DigitsValue(SubSeq(ds, 1, Len(ds) - 1))
                        + DigitValue(ds[Len(ds)])

\* parseInt(string): leading white space is skipped, an optional sign is
\* read, then the longest run of digits; NaN when there is no digit.
parseInt(s) ==
    LET t == TrimLeft(s)
        neg == t # <<>> /\ Head(t) = "-"
        u == IF t # <<>> /\ Head(t) \in {"-", "+"} THEN Tail(t) ELSE t
        ds == LeadingDigits(u)
    IN  IF ds = <<>> THEN [nan |-> TRUE, n |-> 0]
        ELSE [nan |-> FALSE,
              n |-> IF neg THEN 0 - DigitsValue(ds) ELSE DigitsValue(ds)]

DefaultLimit == 20
MinLimit == 1
MaxLimit == 100

(***************************************************************************)
(* Identifiers.  A TimeUuid carries the millisecond of its creation and    *)
(* a tick counter that tells apart the ids of one millisecond; ids are     *)
(* ordered by time, then ticks.  Its text form is "u<time><ticks>".        *)
(***************************************************************************)
NoId == [time |-> 0, ticks |-> 0]

IdLess(a, b) == \/ a.time < b.time
                \/ a.time = b.time /\ a.ticks < b.ticks

\* TimeUuid.prototype.toString
IdToString(id) == <<"u", Digit(id.time), Digit(id.ticks)>>

\* TimeUuid.fromString
IdFromString(s) == [time |-> DigitValue(s[2]), ticks |-> DigitValue(s[3])]

\* the uuidRegex of validateGetMessages
uuidRegexTest(s) == /\ Len(s) = 3
                    /\ s[1] = "u"
                    /\ IsDigit(s[2])
                    /\ IsDigit(s[3])

\* Mutant: both cursors are let through, and before takes precedence.
validateGetMessagesBeforeWins(query) ==
    LET parsed == IF Truthy(query.limit) THEN parseInt(query.limit.s)
                  ELSE [nan |-> FALSE, n |-> DefaultLimit]
        errors ==
            (IF parsed.nan \/ parsed.n < MinLimit \/ parsed.n > MaxLimit
             THEN <<"limit must be a number between 1 and 100">> ELSE <<>>)
         \o (IF Truthy(query.before) /\ ~uuidRegexTest(query.before.s)
             THEN <<"before parameter must be a valid UUID">> ELSE <<>>)
         \o (IF Truthy(query.after) /\ ~uuidRegexTest(query.after.s)
             THEN <<"after parameter must be a valid UUID">> ELSE <<>>)
    IN  IF Len(errors) > 0
        THEN [valid |-> FALSE, errors |-> errors, limit |-> 0,
              before |-> Undefined, after |-> Undefined,
              consistency |-> Undefined]
        ELSE [valid |-> TRUE, errors |-> <<>>, limit |-> parsed.n,
              before |-> query.before, after |-> query.after,
              consistency |-> query.consistency]

validateGetMessages(query) ==
    LET parsed == IF Truthy(query.limit) THEN parseInt(query.limit.s)
                  ELSE [nan |-> FALSE, n |-> DefaultLimit]
        errors ==
            (IF parsed.nan \/ parsed.n < MinLimit \/ parsed.n > MaxLimit
             THEN <<"limit must be a number between 1 and 100">> ELSE <<>>)
         \o (IF Truthy(query.before) /\ Truthy(query.after)
             THEN <<"Cannot use both before and after parameters simultaneously">>
             ELSE <<>>)
         \o (IF Truthy(query.before) /\ ~uuidRegexTest(query.before.s)
             THEN <<"before parameter must be a valid UUID">> ELSE <<>>)
         \o (IF Truthy(query.after) /\ ~uuidRegexTest(query.after.s)
             THEN <<"after parameter must be a valid UUID">> ELSE <<>>)
    IN  IF Len(errors) > 0
        THEN [valid |-> FALSE, errors |-> errors, limit |-> 0,
              before |-> Undefined, after |-> Undefined,
              consistency |-> Undefined]
        ELSE [valid |-> TRUE, errors |-> <<>>, limit |-> parsed.n,
              before |-> query.before, after |-> query.after,
              consistency |-> query.consistency]

\* toTimestamp(messageId) = messageId.getDate(): the millisecond, without
\* the ticks.
toTimestamp(messageId) == messageId.time

(***************************************************************************)
(* Storage: the two tables of the keyspace.                                *)
(***************************************************************************)
\* Mutant: the primary key of messages is the channel alone, so that a
\* write replaces the channel's row.
InsertRowKeyedByChannel(table, row) ==
    { m \in table : m.channel_id # row.channel_id } \cup {row}

\* INSERT INTO messages: a write to the primary key (channel_id, message_id)
InsertRow(table, row) ==
    { m \in table : ~(m.channel_id = row.channel_id
                      /\ m.message_id = row.message_id) } \cup {row}

\* Mutant: the claim is kept per client key, whatever the channel.
DedupeAppliedPerKey(table, channelId, clientMsgId) ==
    \A d \in table : d.client_msg_id # clientMsgId

\* Mutant: the claim is kept per channel, whatever the client key.
DedupeAppliedPerChannel(table, channelId, clientMsgId) ==
    \A d \in table : d.channel_id # channelId

\* Mutant: an unconditional insert, which is always applied.
DedupeAppliedUnconditional(table, channelId, clientMsgId) == TRUE

\* INSERT INTO message_dedupe ... IF NOT EXISTS: [applied] and the table after
DedupeApplied(table, channelId, clientMsgId) ==
    [channel_id |-> channelId, client_msg_id |-> clientMsgId] \notin table

DedupeInsert(table, channelId, clientMsgId) ==
    table \cup {[channel_id |-> channelId, client_msg_id |-> clientMsgId]}

\* The rows of a partition in clustering order (message_id DESC).
RECURSIVE Descending(_)
Descending(rows) ==
    IF rows = {} THEN <<>>
    ELSE LET top == CHOOSE m \in rows :
                        \A o \in rows : o = m \/ IdLess(o.message_id, m.message_id)
         IN  <<top>> \o Descending(rows \ {top})

Take(seq, n) == SubSeq(seq, 1, IF Len(seq) < n THEN Len(seq) ELSE n)

Reverse(seq) == [i \in 1..Len(seq) |-> seq[Len(seq) + 1 - i]]

\* Mutant: the partition is read oldest first (clustering order ASC).
getMessagesRowsAscending(table, channelId, limit, before, after) ==
    LET partition == { m \in table : m.channel_id = channelId }
        matching ==
            IF Truthy(before)
            THEN { m \in partition :
                       IdLess(m.message_id, IdFromString(before.s)) }
            ELSE IF Truthy(after)
            THEN { m \in partition :
                       IdLess(IdFromString(after.s), m.message_id) }
            ELSE partition
    IN  Take(Reverse(Descending(matching)), limit)

\* Mutant: the before cursor is an inclusive bound (message_id <= ?).
getMessagesRowsInclusive(table, channelId, limit, before, after) ==
    LET partition == { m \in table : m.channel_id = channelId }
        matching ==
            IF Truthy(before)
            THEN { m \in partition :
                       ~IdLess(IdFromString(before.s), m.message_id) }
            ELSE IF Truthy(after)
            THEN { m \in partition :
                       IdLess(IdFromString(after.s), m.message_id) }
            ELSE partition
    IN  Take(Descending(matching), limit)

\* Mutant: the SELECT has no channel_id restriction.
getMessagesRowsAllChannels(table, channelId, limit, before, after) ==
    LET matching ==
            IF Truthy(before)
            THEN { m \in table :
                       IdLess(m.message_id, IdFromString(before.s)) }
            ELSE IF Truthy(after)
            THEN { m \in table :
                       IdLess(IdFromString(after.s), m.message_id) }
            ELSE table
    IN  Take(Descending(matching), limit)

\* Mutant: the before cursor is not applied to the SELECT.
getMessagesRowsIgnoringBefore(table, channelId, limit, before, after) ==
    LET partition == { m \in table : m.channel_id = channelId }
        matching ==
            IF Truthy(after) /\ ~Truthy(before)
            THEN { m \in partition :
                       IdLess(IdFromString(after.s), m.message_id) }
            ELSE partition
    IN  Take(Descending(matching), limit)

\* Mutant: the before cursor compares the timestamps of the ids only.
getMessagesRowsByTime(table, channelId, limit, before, after) ==
    LET partition == { m \in table : m.channel_id = channelId }
        matching ==
            IF Truthy(before)
            THEN { m \in partition :
                       m.message_id.time < IdFromString(before.s).time }
            ELSE IF Truthy(after)
            THEN { m \in partition :
                       IdLess(IdFromString(after.s), m.message_id) }
            ELSE partition
    IN  Take(Descending(matching), limit)

\* The SELECT of getMessages: the first `limit` rows, in clustering order,
\* of the partition that satisfy the cursor condition.
getMessagesRows(table, channelId, limit, before, after) ==
    LET partition == { m \in table : m.channel_id = channelId }
        matching ==
            IF Truthy(before)
            THEN { m \in partition :
                       IdLess(m.message_id, IdFromString(before.s)) }
            ELSE IF Truthy(after)
            THEN { m \in partition :
                       IdLess(IdFromString(after.s), m.message_id) }
            ELSE partition
    IN  Take(Descending(matching), limit)

(***************************************************************************)
(* Requests the clients send.                                              *)
(***************************************************************************)
ChannelInputs == { Str(<<"a">>), Str(<<"b">>) }

Body(channel, content, key, consistency) ==
    [channel_id |-> Str(channel), user_id |-> Str(<<"u">>),
     content |-> content, consistency |-> consistency,
     client_msg_id |-> key]

\* Bodies with and without a client key, with a key of white space only,
\* with an unknown consistency token, and one without content.
PostBodies ==
    { Body(<<"a">>, Str(<<"x">>), Str(<<"k">>), Str(<<"Q","U","O","R","U","M">>)),
      Body(<<"a">>, Str(<<"x">>), Str(<<"k">>), Str(<<"B","O","G","U","S">>)),
      Body(<<"b">>, Str(<<"x">>), Str(<<"k">>), Str(<<"a","l","l">>)),
      Body(<<"a">>, Str(<<"x">>), Str(<<" ">>), Undefined),
      Body(<<"a">>, Str(<<"x">>), Undefined, Undefined),
      Body(<<"a">>, Undefined, Str(<<"k">>), Undefined) }


\* The process environment.
EnvInputs == { [DEFAULT_WRITE_CONSISTENCY |-> Undefined,
                DEFAULT_READ_CONSISTENCY |-> Undefined,
                USE_SOFT_ERRORS |-> FALSE] }

(***************************************************************************)
(* State.                                                                  *)
(***************************************************************************)
VARIABLES
    env,                   \* process.env, read by the handlers
    client,                \* db.ts `client`: TRUE once initializeDatabase ran
    messages,              \* table messages
    message_dedupe,        \* table message_dedupe
    clock,                 \* the wall clock, in milliseconds
    lastTimestamp,         \* generator: millisecond of the last id
    ticksForCurrentTime,   \* generator: ids already given in that millisecond
    post,                  \* the POST /api/messages requests
    get                    \* the GET /api/channels/:channel_id/messages requests

vars == <<env, client, messages, message_dedupe, clock, lastTimestamp,
          ticksForCurrentTime, post, get>>

NoResult == [value |-> Undefined, warning |-> Undefined]

NoResponse == [status |-> 0, ok |-> FALSE, message_id |-> Undefined,
               deduped |-> FALSE, warning |-> Undefined, error |-> "",
               items |-> <<>>, next_before |-> Undefined]

IdlePost == [pc |-> "idle", body |-> NoData, data |-> NoData,
             consistencyResult |-> NoResult, failed |-> FALSE,
             isUnique |-> FALSE, hasId |-> FALSE, messageId |-> NoId,
             createdAt |-> 0, ops |-> <<>>, resp |-> NoResponse]

NoQuery == [limit |-> Undefined, before |-> Undefined, after |-> Undefined,
            consistency |-> Undefined]

IdleGet == [pc |-> "idle", channelId |-> Undefined, query |-> NoQuery,
            limit |-> 0, before |-> Undefined, after |-> Undefined,
            consistencyResult |-> NoResult, failed |-> FALSE,
            rows |-> <<>>, seen |-> {}, ops |-> <<>>, resp |-> NoResponse]

Init ==
    /\ env \in EnvInputs
    /\ client = FALSE
    /\ messages = {}
    /\ message_dedupe = {}
    /\ clock = 1
    /\ lastTimestamp = 0
    /\ ticksForCurrentTime = 0
    /\ post = [r \in PostIds |-> IdlePost]
    /\ get = [g \in GetIds |-> IdleGet]

(***************************************************************************)
(* Responses (index.ts).                                                   *)
(***************************************************************************)
\* errorResponse(code, ...) sent with res.status(USE_SOFT_ERRORS ? 200 : status)
ErrorReply(status, code) ==
    [NoResponse EXCEPT !.status = IF env.USE_SOFT_ERRORS THEN 200 ELSE status,
                       !.error = code]

\* Mutant: a duplicate is answered as a conflict.
DedupedReplyAsConflict ==
    [NoResponse EXCEPT !.status = 409, !.error = "CONFLICT"]

\* { ok: true, deduped: true }
DedupedReply == [NoResponse EXCEPT !.status = 200, !.ok = TRUE, !.deduped = TRUE]

\* { ok: true, message_id } plus the warning, when there is one
AcceptedReply(messageId, warning) ==
    [NoResponse EXCEPT !.status = 200, !.ok = TRUE,
                       !.message_id = Str(IdToString(messageId)),
                       !.warning = warning]

(***************************************************************************)
(* Identifier generator: nowId() = TimeUuid.now().  The id takes the       *)
(* current millisecond; the tick counter restarts when the millisecond     *)
(* has advanced and counts up otherwise.                                   *)
(***************************************************************************)
\* Mutant: the tick counter does not count up within one millisecond.
nowIdTicksHeld ==
    IF clock > lastTimestamp THEN 0 ELSE ticksForCurrentTime

\* Mutant: the tick counter also restarts when the clock has not advanced.
nowIdTicksRestarting ==
    IF clock >= lastTimestamp THEN 0 ELSE ticksForCurrentTime + 1

nowIdTicks == IF clock > lastTimestamp THEN 0 ELSE ticksForCurrentTime + 1

\* Mutant: the id is built from the clock alone.
nowIdFromClock == [time |-> clock, ticks |-> 0]

nowId == [time |-> clock, ticks |-> nowIdTicks]

GeneratorStep ==
    /\ ticksForCurrentTime' = nowIdTicks
    /\ lastTimestamp' = IF clock > lastTimestamp THEN clock ELSE lastTimestamp

(***************************************************************************)
(* POST /api/messages (index.ts 69-120).                                   *)
(***************************************************************************)
\* Mutant: the exception of getClient() is not caught and the request gets
\* no answer.
PostStartUncaught(r, body) ==
    LET v == validatePostMessage(body)
        cr == validateConsistency(v.data.consistency,
                                  env.DEFAULT_WRITE_CONSISTENCY)
        started == [post[r] EXCEPT !.body = body, !.data = v.data,
                                   !.consistencyResult = cr]
    IN
    /\ post[r].pc = "idle"
    /\ \A q \in PostIds : q < r => post[q].pc # "idle"
    /\ IF v.threw
       THEN /\ post' = [post EXCEPT ![r] = [post[r] EXCEPT !.pc = "done",
                            !.body = body,
                            !.resp = ErrorReply(500, "INTERNAL")]]
            /\ UNCHANGED <<lastTimestamp, ticksForCurrentTime>>
       ELSE IF ~v.valid
       THEN /\ post' = [post EXCEPT ![r] = [post[r] EXCEPT !.pc = "done",
                            !.body = body,
                            !.resp = ErrorReply(400, "BAD_REQUEST")]]
            /\ UNCHANGED <<lastTimestamp, ticksForCurrentTime>>
       ELSE IF Truthy(v.data.client_msg_id)
       THEN /\ post' = [post EXCEPT ![r] =
                   IF client
                   THEN [started EXCEPT !.pc = "awaitDedupe",
                                        !.ops = <<"claim">>]
                   ELSE [started EXCEPT !.pc = "done"]]
            /\ UNCHANGED <<lastTimestamp, ticksForCurrentTime>>
       ELSE /\ GeneratorStep
            /\ post' = [post EXCEPT ![r] =
                   IF client
                   THEN [started EXCEPT !.pc = "awaitInsert",
                            !.hasId = TRUE, !.messageId = nowId,
                            !.createdAt = toTimestamp(nowId),
                            !.ops = <<"insert">>]
                   ELSE [started EXCEPT !.pc = "done",
                            !.hasId = TRUE, !.messageId = nowId,
                            !.createdAt = toTimestamp(nowId)]]
    /\ UNCHANGED <<env, client, messages, message_dedupe, clock, get>>

\* The handler up to its first await: validation, consistency, then either
\* the dedup claim is sent (client_msg_id present) or the id is generated
\* and the insert is sent.  getClient() throws when the database is not
\* initialized, and the catch block answers 500.
PostStart(r, body) ==
    LET v == validatePostMessage(body)
        cr == validateConsistency(v.data.consistency,
                                  env.DEFAULT_WRITE_CONSISTENCY)
        started == [post[r] EXCEPT !.body = body, !.data = v.data,
                                   !.consistencyResult = cr]
    IN
    /\ post[r].pc = "idle"
    /\ \A q \in PostIds : q < r => post[q].pc # "idle"
    /\ IF v.threw
       THEN /\ post' = [post EXCEPT ![r] = [post[r] EXCEPT !.pc = "done",
                            !.body = body,
                            !.resp = ErrorReply(500, "INTERNAL")]]
            /\ UNCHANGED <<lastTimestamp, ticksForCurrentTime>>
       ELSE IF ~v.valid
       THEN /\ post' = [post EXCEPT ![r] = [post[r] EXCEPT !.pc = "done",
                            !.body = body,
                            !.resp = ErrorReply(400, "BAD_REQUEST")]]
            /\ UNCHANGED <<lastTimestamp, ticksForCurrentTime>>
       ELSE IF Truthy(v.data.client_msg_id)
       THEN /\ post' = [post EXCEPT ![r] =
                   IF client
                   THEN [started EXCEPT !.pc = "awaitDedupe",
                                        !.ops = <<"claim">>]
                   ELSE [started EXCEPT !.pc = "done",
                                        !.resp = ErrorReply(500, "INTERNAL")]]
            /\ UNCHANGED <<lastTimestamp, ticksForCurrentTime>>
       ELSE /\ GeneratorStep
            /\ post' = [post EXCEPT ![r] =
                   IF client
                   THEN [started EXCEPT !.pc = "awaitInsert",
                            !.hasId = TRUE, !.messageId = nowId,
                            !.createdAt = toTimestamp(nowId),
                            !.ops = <<"insert">>]
                   ELSE [started EXCEPT !.pc = "done",
                            !.hasId = TRUE, !.messageId = nowId,
                            !.createdAt = toTimestamp(nowId),
                            !.resp = ErrorReply(500, "INTERNAL")]]
    /\ UNCHANGED <<env, client, messages, message_dedupe, clock, get>>

\* checkDedupe's statement reaches the storage: the conditional insert is
\* applied atomically, or the storage is unavailable and nothing is written.
DedupeExec(r) ==
    /\ post[r].pc = "awaitDedupe"
    /\ \/ /\ post' = [post EXCEPT ![r] = [post[r] EXCEPT !.pc = "dedupeDone",
                        !.isUnique = DedupeApplied(message_dedupe,
                                         post[r].data.channel_id.s,
                                         post[r].data.client_msg_id.s)]]
          /\ message_dedupe' = DedupeInsert(message_dedupe,
                                   post[r].data.channel_id.s,
                                   post[r].data.client_msg_id.s)
       \/ /\ post' = [post EXCEPT ![r] = [post[r] EXCEPT !.pc = "dedupeDone",
                                                          !.failed = TRUE]]
          /\ UNCHANGED message_dedupe
    /\ UNCHANGED <<env, client, messages, clock, lastTimestamp,
                   ticksForCurrentTime, get>>

\* Mutant: the result of checkDedupe is not looked at.
DedupeReturnIgnoringResult(r) ==
    /\ post[r].pc = "dedupeDone"
    /\ IF post[r].failed
       THEN /\ post' = [post EXCEPT ![r] = [post[r] EXCEPT !.pc = "done",
                            !.resp = ErrorReply(500, "INTERNAL")]]
            /\ UNCHANGED <<lastTimestamp, ticksForCurrentTime>>
       ELSE /\ GeneratorStep
            /\ post' = [post EXCEPT ![r] = [post[r] EXCEPT
                            !.pc = "awaitInsert",
                            !.hasId = TRUE, !.messageId = nowId,
                            !.createdAt = toTimestamp(nowId),
                            !.ops = Append(post[r].ops, "insert")]]
    /\ UNCHANGED <<env, client, messages, message_dedupe, clock, get>>

\* Mutant: a failed claim is sent again.
DedupeReturnRetrying(r) ==
    /\ post[r].pc = "dedupeDone"
    /\ IF post[r].failed
       THEN /\ post' = [post EXCEPT ![r] = [post[r] EXCEPT
                            !.pc = "awaitDedupe", !.failed = FALSE,
                            !.ops = Append(post[r].ops, "claim")]]
            /\ UNCHANGED <<lastTimestamp, ticksForCurrentTime>>
       ELSE IF ~post[r].isUnique
       THEN /\ post' = [post EXCEPT ![r] = [post[r] EXCEPT !.pc = "done",
                            !.resp = DedupedReply]]
            /\ UNCHANGED <<lastTimestamp, ticksForCurrentTime>>
       ELSE /\ GeneratorStep
            /\ post' = [post EXCEPT ![r] = [post[r] EXCEPT
                            !.pc = "awaitInsert",
                            !.hasId = TRUE, !.messageId = nowId,
                            !.createdAt = toTimestamp(nowId),
                            !.ops = Append(post[r].ops, "insert")]]
    /\ UNCHANGED <<env, client, messages, message_dedupe, clock, get>>

\* The handler resumes after `await checkDedupe`: a failure goes to the
\* catch block, a duplicate is answered, otherwise the id is generated and
\* the insert is sent.
DedupeReturn(r) ==
    /\ post[r].pc = "dedupeDone"
    /\ IF post[r].failed
       THEN /\ post' = [post EXCEPT ![r] = [post[r] EXCEPT !.pc = "done",
                            !.resp = ErrorReply(500, "INTERNAL")]]
            /\ UNCHANGED <<lastTimestamp, ticksForCurrentTime>>
       ELSE IF ~post[r].isUnique
       THEN /\ post' = [post EXCEPT ![r] = [post[r] EXCEPT !.pc = "done",
                            !.resp = DedupedReply]]
            /\ UNCHANGED <<lastTimestamp, ticksForCurrentTime>>
       ELSE /\ GeneratorStep
            /\ post' = [post EXCEPT ![r] = [post[r] EXCEPT
                            !.pc = "awaitInsert",
                            !.hasId = TRUE, !.messageId = nowId,
                            !.createdAt = toTimestamp(nowId),
                            !.ops = Append(post[r].ops, "insert")]]
    /\ UNCHANGED <<env, client, messages, message_dedupe, clock, get>>

\* Mutant: an insert that is reported as failed has stored the row.
InsertExecAppliedOnFailure(r) ==
    /\ post[r].pc = "awaitInsert"
    /\ messages' = InsertRow(messages,
           [channel_id |-> post[r].data.channel_id.s,
            message_id |-> post[r].messageId,
            user_id |-> post[r].data.user_id.s,
            content |-> post[r].data.content.s,
            created_at |-> post[r].createdAt])
    /\ \/ post' = [post EXCEPT ![r] = [post[r] EXCEPT !.pc = "insertDone"]]
       \/ post' = [post EXCEPT ![r] = [post[r] EXCEPT !.pc = "insertDone",
                                                       !.failed = TRUE]]
    /\ UNCHANGED <<env, client, message_dedupe, clock, lastTimestamp,
                   ticksForCurrentTime, get>>

\* Mutant: the insert also writes a dedup record for the message.
InsertExecRecordingKey(r) ==
    /\ post[r].pc = "awaitInsert"
    /\ \/ /\ messages' = InsertRow(messages,
                 [channel_id |-> post[r].data.channel_id.s,
                  message_id |-> post[r].messageId,
                  user_id |-> post[r].data.user_id.s,
                  content |-> post[r].data.content.s,
                  created_at |-> post[r].createdAt])
          /\ message_dedupe' = DedupeInsert(message_dedupe,
                                   post[r].data.channel_id.s,
                                   post[r].data.client_msg_id.s)
          /\ post' = [post EXCEPT ![r] = [post[r] EXCEPT !.pc = "insertDone"]]
       \/ /\ post' = [post EXCEPT ![r] = [post[r] EXCEPT !.pc = "insertDone",
                                                          !.failed = TRUE]]
          /\ UNCHANGED <<messages, message_dedupe>>
    /\ UNCHANGED <<env, client, clock, lastTimestamp,
                   ticksForCurrentTime, get>>

\* Mutant: a failed insert takes the request's dedup record back.
InsertExecCompensating(r) ==
    /\ post[r].pc = "awaitInsert"
    /\ \/ /\ messages' = InsertRow(messages,
                 [channel_id |-> post[r].data.channel_id.s,
                  message_id |-> post[r].messageId,
                  user_id |-> post[r].data.user_id.s,
                  content |-> post[r].data.content.s,
                  created_at |-> post[r].createdAt])
          /\ post' = [post EXCEPT ![r] = [post[r] EXCEPT !.pc = "insertDone"]]
          /\ UNCHANGED message_dedupe
       \/ /\ post' = [post EXCEPT ![r] = [post[r] EXCEPT !.pc = "insertDone",
                                                          !.failed = TRUE]]
          /\ message_dedupe' = message_dedupe \
                 {[channel_id |-> post[r].data.channel_id.s,
                   client_msg_id |-> post[r].data.client_msg_id.s]}
          /\ UNCHANGED messages
    /\ UNCHANGED <<env, client, clock, lastTimestamp,
                   ticksForCurrentTime, get>>

\* Mutant: the row's created_at is the time of the insert.
InsertExecStampedAtInsert(r) ==
    /\ post[r].pc = "awaitInsert"
    /\ \/ /\ messages' = InsertRow(messages,
                 [channel_id |-> post[r].data.channel_id.s,
                  message_id |-> post[r].messageId,
                  user_id |-> post[r].data.user_id.s,
                  content |-> post[r].data.content.s,
                  created_at |-> clock])
          /\ post' = [post EXCEPT ![r] = [post[r] EXCEPT !.pc = "insertDone"]]
       \/ /\ post' = [post EXCEPT ![r] = [post[r] EXCEPT !.pc = "insertDone",
                                                          !.failed = TRUE]]
          /\ UNCHANGED messages
    /\ UNCHANGED <<env, client, message_dedupe, clock, lastTimestamp,
                   ticksForCurrentTime, get>>

\* insertMessage's statement reaches the storage.
InsertExec(r) ==
    /\ post[r].pc = "awaitInsert"
    /\ \/ /\ messages' = InsertRow(messages,
                 [channel_id |-> post[r].data.channel_id.s,
                  message_id |-> post[r].messageId,
                  user_id |-> post[r].data.user_id.s,
                  content |-> post[r].data.content.s,
                  created_at |-> post[r].createdAt])
          /\ post' = [post EXCEPT ![r] = [post[r] EXCEPT !.pc = "insertDone"]]
       \/ /\ post' = [post EXCEPT ![r] = [post[r] EXCEPT !.pc = "insertDone",
                                                          !.failed = TRUE]]
          /\ UNCHANGED messages
    /\ UNCHANGED <<env, client, message_dedupe, clock, lastTimestamp,
                   ticksForCurrentTime, get>>

\* The handler resumes after `await insertMessage` and answers.
InsertReturn(r) ==
    /\ post[r].pc = "insertDone"
    /\ post' = [post EXCEPT ![r] = [post[r] EXCEPT !.pc = "done",
                  !.resp = IF post[r].failed
                           THEN ErrorReply(500, "INTERNAL")
                           ELSE AcceptedReply(post[r].messageId,
                                    post[r].consistencyResult.warning)]]
    /\ UNCHANGED <<env, client, messages, message_dedupe, clock,
                   lastTimestamp, ticksForCurrentTime, get>>

(***************************************************************************)
(* GET /api/channels/:channel_id/messages (index.ts 123-179).              *)
(***************************************************************************)
\* created_at.toISOString()
toISOString(time) == <<"t", Digit(time)>>

\* rows.map(row => ({ ... })): the items of the response
Items(rows) ==
    [i \in 1..Len(rows) |->
        [channel_id |-> rows[i].channel_id,
         message_id |-> IdToString(rows[i].message_id),
         user_id |-> rows[i].user_id,
         content |-> rows[i].content,
         created_at |-> toISOString(rows[i].created_at)]]

\* Mutant: the cursor is taken from the first item of the page.
NextBeforeFirst(items) ==
    IF Len(items) > 0 THEN Str(items[1].message_id) ELSE Null

\* items.length > 0 ? items[items.length - 1].message_id : null
NextBefore(items) ==
    IF Len(items) > 0 THEN Str(items[Len(items)].message_id) ELSE Null

\* { ok: true, items, page: { next_before } } plus the warning, if any
PageReply(items, warning) ==
    [NoResponse EXCEPT !.status = 200, !.ok = TRUE, !.items = items,
                       !.next_before = NextBefore(items),
                       !.warning = warning]

\* Mutant: the validation error is answered without `return`, and the
\* handler goes on to the SELECT.
GetStartWithoutReturn(g, channelId, query) ==
    LET v == validateGetMessages(query)
        cr == validateConsistency(
                  IF Truthy(v.consistency) THEN v.consistency
                  ELSE env.DEFAULT_READ_CONSISTENCY,
                  env.DEFAULT_WRITE_CONSISTENCY)
        started == [get[g] EXCEPT !.channelId = channelId, !.query = query]
    IN
    /\ get[g].pc = "idle"
    /\ \A q \in GetIds : q < g => get[q].pc # "idle"
    /\ get' = [get EXCEPT ![g] =
           IF ~Truthy(channelId) \/ Len(channelId.s) < 1
                                 \/ Len(channelId.s) > MaxIdLen
           THEN [started EXCEPT !.pc = "done",
                                !.resp = ErrorReply(400, "BAD_REQUEST")]
           ELSE IF ~client
           THEN [started EXCEPT !.pc = "done", !.limit = v.limit,
                                !.before = v.before, !.after = v.after,
                                !.consistencyResult = cr,
                                !.resp = ErrorReply(500, "INTERNAL")]
           ELSE [started EXCEPT !.pc = "awaitRead", !.limit = v.limit,
                                !.before = v.before, !.after = v.after,
                                !.consistencyResult = cr,
                                !.resp = IF v.valid THEN NoResponse
                                         ELSE ErrorReply(400, "BAD_REQUEST"),
                                !.ops = <<"read">>]]
    /\ UNCHANGED <<env, client, messages, message_dedupe, clock,
                   lastTimestamp, ticksForCurrentTime, post>>

\* The handler up to its await: channel and query validation, consistency
\* (the query's token, else DEFAULT_READ_CONSISTENCY), then the SELECT is sent.
GetStart(g, channelId, query) ==
    LET v == validateGetMessages(query)
        cr == validateConsistency(
                  IF Truthy(v.consistency) THEN v.consistency
                  ELSE env.DEFAULT_READ_CONSISTENCY,
                  env.DEFAULT_WRITE_CONSISTENCY)
        started == [get[g] EXCEPT !.channelId = channelId, !.query = query]
    IN
    /\ get[g].pc = "idle"
    /\ \A q \in GetIds : q < g => get[q].pc # "idle"
    /\ get' = [get EXCEPT ![g] =
           IF ~Truthy(channelId) \/ Len(channelId.s) < 1
                                 \/ Len(channelId.s) > MaxIdLen
           THEN [started EXCEPT !.pc = "done",
                                !.resp = ErrorReply(400, "BAD_REQUEST")]
           ELSE IF ~v.valid
           THEN [started EXCEPT !.pc = "done",
                                !.resp = ErrorReply(400, "BAD_REQUEST")]
           ELSE IF ~client
           THEN [started EXCEPT !.pc = "done", !.limit = v.limit,
                                !.before = v.before, !.after = v.after,
                                !.consistencyResult = cr,
                                !.resp = ErrorReply(500, "INTERNAL")]
           ELSE [started EXCEPT !.pc = "awaitRead", !.limit = v.limit,
                                !.before = v.before, !.after = v.after,
                                !.consistencyResult = cr,
                                !.ops = <<"read">>]]
    /\ UNCHANGED <<env, client, messages, message_dedupe, clock,
                   lastTimestamp, ticksForCurrentTime, post>>

\* getMessages' SELECT reaches the storage.  `seen` records the ids the
\* partition held at that moment (history, read by the properties only).
ReadExec(g) ==
    /\ get[g].pc = "awaitRead"
    /\ \/ get' = [get EXCEPT ![g] = [get[g] EXCEPT !.pc = "readDone",
                    !.rows = getMessagesRows(messages, get[g].channelId.s,
                                 get[g].limit, get[g].before, get[g].after),
                    !.seen = { m.message_id : m \in
                                 { x \in messages :
                                     x.channel_id = get[g].channelId.s } }]]
       \/ get' = [get EXCEPT ![g] = [get[g] EXCEPT !.pc = "readDone",
                                                    !.failed = TRUE]]
    /\ UNCHANGED <<env, client, messages, message_dedupe, clock,
                   lastTimestamp, ticksForCurrentTime, post>>

\* The handler resumes after `await getMessages` and answers the page.
GetReturn(g) ==
    /\ get[g].pc = "readDone"
    /\ get' = [get EXCEPT ![g] = [get[g] EXCEPT !.pc = "done",
                 !.resp = IF get[g].failed
                          THEN ErrorReply(500, "INTERNAL")
                          ELSE PageReply(Items(get[g].rows),
                                   get[g].consistencyResult.warning)]]
    /\ UNCHANGED <<env, client, messages, message_dedupe, clock,
                   lastTimestamp, ticksForCurrentTime, post>>

(***************************************************************************)
(* GET /health and the 404 handler (index.ts 52-66, 181-185).  dbInfo is   *)
(* set by start() when initializeDatabase has returned, which is when      *)
(* `client` is connected.                                                  *)
(***************************************************************************)
HealthReply ==
    IF ~client
    THEN [NoResponse EXCEPT !.status = 503, !.error = "SERVICE_UNAVAILABLE"]
    ELSE [NoResponse EXCEPT !.status = 200, !.ok = TRUE]

HealthRequest(g) ==
    /\ get[g].pc = "idle"
    /\ \A q \in GetIds : q < g => get[q].pc # "idle"
    /\ get' = [get EXCEPT ![g] = [get[g] EXCEPT !.pc = "done",
                                                !.resp = HealthReply]]
    /\ UNCHANGED <<env, client, messages, message_dedupe, clock,
                   lastTimestamp, ticksForCurrentTime, post>>

\* a request to a path no route matches
UnknownRoute(g) ==
    /\ get[g].pc = "idle"
    /\ \A q \in GetIds : q < g => get[q].pc # "idle"
    /\ get' = [get EXCEPT ![g] = [get[g] EXCEPT !.pc = "done",
                     !.resp = ErrorReply(404, "NOT_FOUND")]]
    /\ UNCHANGED <<env, client, messages, message_dedupe, clock,
                   lastTimestamp, ticksForCurrentTime, post>>

(***************************************************************************)
(* The environment: start-up and the clock.                                *)
(***************************************************************************)
\* start(): initializeDatabase() sets `client`
Connect ==
    /\ ~client
    /\ client' = TRUE
    /\ UNCHANGED <<env, messages, message_dedupe, clock, lastTimestamp,
                   ticksForCurrentTime, post, get>>

\* The wall clock reaches the next millisecond.
Tick ==
    /\ clock < MaxClock
    /\ clock' = clock + 1
    /\ UNCHANGED <<env, client, messages, message_dedupe, lastTimestamp,
                   ticksForCurrentTime, post, get>>

(***************************************************************************)
(* The server from start-up, handling appends concurrently.                *)
(***************************************************************************)
PostRequest == \E r \in 1..MaxPosts : \E body \in PostBodies :
                   PostStart(r, body)
DedupeStorage == \E r \in PostIds : DedupeExec(r)
DedupeResume == \E r \in PostIds : DedupeReturn(r)
InsertStorage == \E r \in PostIds : InsertExec(r)
InsertResume == \E r \in PostIds : InsertReturn(r)

Next == \/ PostRequest
        \/ DedupeStorage
        \/ DedupeResume
        \/ InsertStorage
        \/ InsertResume
        \/ Connect
        \/ Tick

Spec == Init /\ [][Next]_vars

(***************************************************************************)
(* Reads of a populated keyspace.  The tables hold up to MaxRows messages  *)
(* written earlier, in either channel, under ids the generator can give.   *)
(***************************************************************************)
IdSpace == [time : 1..MaxClock, ticks : 0..MaxTicks]

RowOf(channel, id) ==
    [channel_id |-> channel, message_id |-> id, user_id |-> <<"u">>,
     content |-> <<"x">>, created_at |-> toTimestamp(id)]

\* Every id is held by at most one message.
StoredTables ==
    { { RowOf(f[id], id) : id \in DOMAIN f } :
        f \in UNION { [ids -> {<<"a">>, <<"b">>}] :
                        ids \in { S \in SUBSET IdSpace :
                                    Cardinality(S) <= MaxRows } } }

InitList ==
    /\ env \in EnvInputs
    /\ client = TRUE
    /\ messages \in StoredTables
    /\ message_dedupe = {}
    /\ clock = MaxClock
    /\ lastTimestamp = MaxClock
    /\ ticksForCurrentTime = MaxTicks
    /\ post = [r \in PostIds |-> IdlePost]
    /\ get = [g \in GetIds |-> IdleGet]

\* The cursor strings of a query: none, or the text of an id.
CursorInputs == {Undefined} \cup { Str(IdToString(id)) : id \in IdSpace }

ListQueries ==
    { q \in [limit : { Str(<<"1">>), Str(<<"2">>) }, before : CursorInputs,
             after : CursorInputs, consistency : {Undefined}] :
        ~(Truthy(q.before) /\ Truthy(q.after)) }

ListRequest == \E c \in ChannelInputs : \E q \in ListQueries : GetStart(1, c, q)
GetStorage == \E g \in GetIds : ReadExec(g)
GetResume == \E g \in GetIds : GetReturn(g)

NextList == \/ ListRequest
            \/ GetStorage
            \/ GetResume

SpecList == InitList /\ [][NextList]_vars

(***************************************************************************)
(* A client that pages through channel "a" with the before cursor while    *)
(* other clients append to it.                                             *)
(***************************************************************************)
InitPager ==
    /\ env \in EnvInputs
    /\ client = TRUE
    /\ messages = {}
    /\ message_dedupe = {}
    /\ clock = 1
    /\ lastTimestamp = 0
    /\ ticksForCurrentTime = 0
    /\ post = [r \in PostIds |-> IdlePost]
    /\ get = [g \in GetIds |-> IdleGet]

PagerLimits == { Str(<<"1">>), Str(<<"2">>) }

PagerPost == \E r \in 1..PagerPosts :
                 PostStart(r, Body(<<"a">>, Str(<<"x">>), Undefined, Undefined))

\* The first page is asked without a cursor; each further page passes the
\* next_before of the page before it, with the same limit.
PagerGet ==
    \E g \in 1..MaxPages : \E limit \in PagerLimits :
        /\ g > 1 => /\ get[g - 1].pc = "done"
                    /\ get[g - 1].resp.ok
                    /\ Truthy(get[g - 1].resp.next_before)
                    /\ get[g - 1].query.limit = limit
        /\ GetStart(g, Str(<<"a">>),
               [limit |-> limit,
                before |-> IF g = 1 THEN Undefined
                           ELSE get[g - 1].resp.next_before,
                after |-> Undefined, consistency |-> Undefined])

NextPager == \/ PagerPost
             \/ InsertStorage
             \/ InsertResume
             \/ PagerGet
             \/ GetStorage
             \/ GetResume
             \/ Tick

SpecPager == InitPager /\ [][NextPager]_vars

(***************************************************************************)
(* Appends to two channels while the channels are listed.                  *)
(***************************************************************************)
\* A keyless append to either channel; the content names the channel.
ChannelsPost ==
    \E r \in 1..MaxPosts : \E c \in ChannelInputs :
        PostStart(r, Body(c.s, c, Undefined, Undefined))

ChannelsGet ==
    \E c \in ChannelInputs :
        GetStart(1, c, [limit |-> Str(<<"2">>), before |-> Undefined,
                        after |-> Undefined, consistency |-> Undefined])

NextChannels == \/ ChannelsPost
                \/ InsertStorage
                \/ InsertResume
                \/ ChannelsGet
                \/ GetStorage
                \/ GetResume
                \/ Tick

SpecChannels == InitPager /\ [][NextChannels]_vars

(***************************************************************************)
(* Requests with every kind of input: consistency tokens in several        *)
(* spellings, missing and malformed fields, limits in and out of range,    *)
(* well and ill formed cursors.  The keyspace holds one message and the    *)
(* DedupRecord of key "k", left by an earlier append of channel "a".       *)
(***************************************************************************)
RecognizedInputs ==
    { <<"A","N","Y">>, <<"O","N","E">>, <<"T","W","O">>,
      <<"T","H","R","E","E">>, <<"Q","U","O","R","U","M">>,
      <<"A","L","L">>, <<"L","O","C","A","L","_","O","N","E">>,
      <<"L","O","C","A","L","_","Q","U","O","R","U","M">>,
      <<"a","n","y">>, <<"o","n","e">>, <<"t","w","o">>,
      <<"t","h","r","e","e">>, <<"q","u","o","r","u","m">>,
      <<"a","l","l">>, <<"l","o","c","a","l","_","o","n","e">>,
      <<"l","o","c","a","l","_","q","u","o","r","u","m">>,
      <<"Q","u","o","r","u","m">>,
      <<"L","o","c","a","l","_","O","n","e">> }

UnrecognizedInputs ==
    { <<"B","O","G","U","S">>,
      <<"E","A","C","H","_","Q","U","O","R","U","M">>,
      <<"s","e","r","i","a","l">>,
      <<"l","o","c","a","l","O","n","e">> }

TokenInputs == { Str(t) : t \in RecognizedInputs \cup UnrecognizedInputs }

InputEnvs ==
    [DEFAULT_WRITE_CONSISTENCY :
         {Undefined, Str(<<"Q","U","O","R","U","M">>),
          Str(<<"L","O","C","A","L","_","Q","U","O","R","U","M">>)},
     DEFAULT_READ_CONSISTENCY : {Undefined, Str(<<"T","W","O">>)},
     USE_SOFT_ERRORS : {FALSE}]

ValidBody == Body(<<"a">>, Str(<<"x">>), Undefined, Undefined)

InputBodies ==
    { [ValidBody EXCEPT !.consistency = c] : c \in TokenInputs \cup {Undefined} }
    \cup { [ValidBody EXCEPT !.client_msg_id = k, !.consistency = c] :
              k \in {Str(<<"k">>), Str(<<"n">>)},
              c \in {Undefined, Str(<<"B","O","G","U","S">>)} }
    \cup { [ValidBody EXCEPT !.channel_id = Undefined],
           [ValidBody EXCEPT !.user_id = NotAString],
           [ValidBody EXCEPT !.content = Str(<<>>)],
           [ValidBody EXCEPT !.client_msg_id = NotAString],
           [ValidBody EXCEPT !.consistency = NotAString] }

LimitInputs ==
    { Undefined, Str(<<>>), Str(<<"0">>), Str(<<"1">>), Str(<<"1","0","0">>),
      Str(<<"1","0","1">>), Str(<<"a","b","c">>), Str(<<"1",".","5">>),
      Str(<<"5","a","b","c">>) }

InputCursors == { Undefined, Str(<<"u","1","0">>), Str(<<"z","z">>) }

InputQueries ==
    [limit : LimitInputs, before : InputCursors, after : InputCursors,
     consistency : { Undefined, Str(<<"B","O","G","U","S">>) }]

InitInputs ==
    /\ env \in InputEnvs
    /\ client = TRUE
    /\ messages = { RowOf(<<"a">>, [time |-> 1, ticks |-> 0]) }
    /\ message_dedupe = { [channel_id |-> <<"a">>, client_msg_id |-> <<"k">>] }
    /\ clock = 1
    /\ lastTimestamp = 1
    /\ ticksForCurrentTime = 0
    /\ post = [r \in PostIds |-> IdlePost]
    /\ get = [g \in GetIds |-> IdleGet]

InputsPost == \E body \in InputBodies : PostStart(1, body)
InputsGet == \E q \in InputQueries : GetStart(1, Str(<<"a">>), q)

NextInputs == \/ InputsPost
              \/ DedupeStorage
              \/ DedupeResume
              \/ InsertStorage
              \/ InsertResume
              \/ InputsGet
              \/ GetStorage
              \/ GetResume

SpecInputs == InitInputs /\ [][NextInputs]_vars

(***************************************************************************)
(* One client appends to channel "a", each append after the one before it  *)
(* was answered, while the channel is listed.                              *)
(***************************************************************************)
SequentialPost ==
    \E r \in 1..MaxPosts :
        /\ \A q \in PostIds : q < r => post[q].pc = "done"
        /\ PostStart(r, Body(<<"a">>, Str(<<"x">>), Undefined, Undefined))

SequentialGet ==
    \E limit \in PagerLimits :
        GetStart(1, Str(<<"a">>),
            [limit |-> limit, before |-> Undefined, after |-> Undefined,
             consistency |-> Undefined])

NextSequential == \/ SequentialPost
                  \/ InsertStorage
                  \/ InsertResume
                  \/ SequentialGet
                  \/ GetStorage
                  \/ GetResume
                  \/ Tick

SpecSequential == InitPager /\ [][NextSequential]_vars

(***************************************************************************)
(* The server from the moment the module is loaded: clients append to      *)
(* channel "a", with different client keys or none, and list it, before    *)
(* and after the storage connection is made.                               *)
(***************************************************************************)
StartupBodies ==
    { Body(<<"a">>, Str(<<"x">>), k, Undefined) :
        k \in {Undefined, Str(<<"k">>), Str(<<"j">>)} }

StartupQuery == [limit |-> Undefined, before |-> Undefined,
                 after |-> Undefined, consistency |-> Undefined]

StartupPost == \E r \in 1..MaxPosts : \E body \in StartupBodies :
                   PostStart(r, body)

StartupGet == \/ GetStart(1, Str(<<"a">>), StartupQuery)
              \/ /\ get[1].pc = "done"
                 /\ GetStart(2, Str(<<"a">>), StartupQuery)

NextStartup == \/ StartupPost
               \/ DedupeStorage
               \/ DedupeResume
               \/ InsertStorage
               \/ InsertResume
               \/ StartupGet
               \/ GetStorage
               \/ GetResume
               \/ Connect

SpecStartup == Init /\ [][NextStartup]_vars

(***************************************************************************)
(* Appends whose fields carry white space around their text, or nothing    *)
(* but white space.                                                        *)
(***************************************************************************)
TrimBodies ==
    { Body(<<"a">>, Str(<<"x">>), Str(<<"k">>), Undefined),
      [Body(<<" ", "a">>, Str(<<"x", " ">>), Str(<<" ", "k", " ">>), Undefined)
          EXCEPT !.user_id = Str(<<" ", "u", " ">>)],
      Body(<<"a">>, Str(<<" ">>), Undefined, Undefined),
      Body(<<" ">>, Str(<<"x">>), Undefined, Undefined),
      [Body(<<"a">>, Str(<<"x">>), Undefined, Undefined)
          EXCEPT !.user_id = Str(<<" ", " ">>)],
      Body(<<"a">>, Str(<<"x">>), Str(<<" ">>), Undefined),
      Body(<<"a">>, Str(<<"x">>), Str(<<" ", " ">>), Undefined),
      Body(<<"a">>, Str(<<>>), Undefined, Undefined) }

TrimPost == \E r \in 1..MaxPosts : \E body \in TrimBodies :
                PostStart(r, body)

NextTrim == \/ TrimPost
            \/ DedupeStorage
            \/ DedupeResume
            \/ InsertStorage
            \/ InsertResume

SpecTrim == InitPager /\ [][NextTrim]_vars

(***************************************************************************)
(* Every endpoint, with soft errors enabled and disabled, before and after *)
(* the storage connection is made.                                         *)
(***************************************************************************)
ErrorEnvs ==
    [DEFAULT_WRITE_CONSISTENCY : {Undefined},
     DEFAULT_READ_CONSISTENCY : {Undefined},
     USE_SOFT_ERRORS : BOOLEAN]

InitErrors ==
    /\ env \in ErrorEnvs
    /\ client = FALSE
    /\ messages = {}
    /\ message_dedupe = {}
    /\ clock = 1
    /\ lastTimestamp = 0
    /\ ticksForCurrentTime = 0
    /\ post = [r \in PostIds |-> IdlePost]
    /\ get = [g \in GetIds |-> IdleGet]

ErrorBodies ==
    { Body(<<"a">>, Str(<<"x">>), Undefined, Undefined),
      Body(<<"a">>, Str(<<"x">>), Str(<<"k">>), Undefined),
      Body(<<"a">>, Undefined, Undefined, Undefined),
      Body(<<"a">>, Str(<<"x">>), Undefined, NotAString) }

ErrorQueries ==
    { StartupQuery, [StartupQuery EXCEPT !.limit = Str(<<"0">>)] }

ErrorsPost == \E body \in ErrorBodies : PostStart(1, body)

ErrorsGet == \E g \in GetIds : \E q \in ErrorQueries :
                 GetStart(g, Str(<<"a">>), q)

ErrorsHealth == \E g \in GetIds : HealthRequest(g)

ErrorsUnknownRoute == \E g \in GetIds : UnknownRoute(g)

NextErrors == \/ ErrorsPost
              \/ DedupeStorage
              \/ DedupeResume
              \/ InsertStorage
              \/ InsertResume
              \/ ErrorsGet
              \/ GetStorage
              \/ GetResume
              \/ ErrorsHealth
              \/ ErrorsUnknownRoute
              \/ Connect

SpecErrors == InitErrors /\ [][NextErrors]_vars

(***************************************************************************)
(* Properties of the append path (Spec).                                   *)
(***************************************************************************)
Started(r) == post[r].pc # "idle"
CompletedOk(r) == post[r].pc = "done" /\ post[r].resp.ok
Accepted(r) == CompletedOk(r) /\ Truthy(post[r].resp.message_id)
Deduplicated(r) == CompletedOk(r) /\ post[r].resp.deduped

\* The valid requests that carry the client key and channel of request r.
SameKey(r) ==
    { q \in PostIds :
        /\ Started(q)
        /\ validatePostMessage(post[q].body).valid
        /\ post[q].body.channel_id = post[r].body.channel_id
        /\ post[q].body.client_msg_id = post[r].body.client_msg_id }

\* ListMessages(channel, limit = 10)
Listing(channel) == getMessagesRows(messages, channel, 10, Undefined, Undefined)

\* C1: when all requests carrying one (channel_id, client_key) have completed
\* without failure, exactly one of them was Accepted, with an id X, the
\* others were Deduplicated, and the listing of the channel holds exactly
\* one message of these requests, the one with id X.
C1_AtMostOnceAppend ==
    \A r \in PostIds :
        (/\ Started(r)
         /\ validatePostMessage(post[r].body).valid
         /\ Truthy(post[r].body.client_msg_id)
         /\ \A q \in SameKey(r) : CompletedOk(q))
        => LET accepted == { q \in SameKey(r) : Accepted(q) }
               listing == Listing(Trim(post[r].body.channel_id.s))
               theirs == { i \in 1..Len(listing) :
                             \E q \in SameKey(r) :
                                 /\ post[q].hasId
                                 /\ listing[i].message_id = post[q].messageId }
           IN  /\ Cardinality(accepted) = 1
               /\ \A q \in SameKey(r) \ accepted : Deduplicated(q)
               /\ Cardinality(theirs) = 1
               /\ \A i \in theirs : \A q \in accepted :
                      Str(IdToString(listing[i].message_id))
                          = post[q].resp.message_id

\* The claim of request r has returned from the storage with a result.
ClaimReturned(r) ==
    /\ post[r].ops # <<>>
    /\ post[r].ops[1] = "claim"
    /\ post[r].pc # "awaitDedupe"
    /\ ~(post[r].failed /\ Len(post[r].ops) = 1)

StrongLevel(r) ==
    post[r].consistencyResult.value
        \in { consistencies(<<"q","u","o","r","u","m">>),
              consistencies(<<"a","l","l">>) }

SameClaim(r) ==
    { q \in PostIds :
        /\ ClaimReturned(q)
        /\ post[q].data.channel_id = post[r].data.channel_id
        /\ post[q].data.client_msg_id = post[r].data.client_msg_id }

\* C2: of the claims on one (channel_id, client_key) made at QUORUM or ALL
\* that have returned, concurrently or one after another, exactly one
\* returned accepted = true and every other one returned false.
C2_ExactlyOneClaimAccepted ==
    \A r \in PostIds :
        (ClaimReturned(r) /\ \A q \in SameClaim(r) : StrongLevel(q))
        => Cardinality({ q \in SameClaim(r) : post[q].isUnique }) = 1

\* Two claims on one key were in flight together and both have returned.
C2_Witness ==
    \E r, q \in PostIds :
        /\ r # q
        /\ q \in SameClaim(r)
        /\ StrongLevel(r) /\ StrongLevel(q)
        /\ post[r].pc = "dedupeDone" /\ post[q].pc = "dedupeDone"
        /\ post[r].isUnique /\ ~post[q].isUnique

Rejected(r) == ClaimReturned(r) /\ ~post[r].isUnique

\* C3: a request whose claim returned accepted = false has no id and has
\* sent no insert, and its next step answers Deduplicated and leaves the
\* tables and the generator as they are.
C3_RejectedClaimWritesNothing ==
    [][\A r \in PostIds :
          Rejected(r) =>
             /\ ~post[r].hasId
             /\ post[r].ops = <<"claim">>
             /\ post'[r] # post[r] =>
                   /\ messages' = messages
                   /\ message_dedupe' = message_dedupe
                   /\ lastTimestamp' = lastTimestamp
                   /\ ticksForCurrentTime' = ticksForCurrentTime
                   /\ Deduplicated(r)'
                   /\ ~post'[r].hasId
                   /\ post'[r].ops = <<"claim">>]_vars

\* A request was answered Deduplicated while the channel holds the message
\* of the request that won the claim.
C3_Witness ==
    \E r, q \in PostIds :
        /\ Rejected(r) /\ Deduplicated(r)
        /\ Accepted(q)
        /\ q \in SameKey(r)

\* C10: each id the generator returns is strictly greater than every id it
\* returned before, also within one millisecond, and its timestamp is not
\* less than theirs.
C10_IdsStrictlyIncrease ==
    [][\A r \in PostIds :
          (~post[r].hasId /\ post'[r].hasId) =>
             \A q \in PostIds :
                post[q].hasId =>
                   /\ IdLess(post[q].messageId, post'[r].messageId)
                   /\ toTimestamp(post[q].messageId)
                          <= toTimestamp(post'[r].messageId)]_vars

\* Two ids were generated within one millisecond.
C10_Witness ==
    \E r, q \in PostIds :
        /\ post[r].hasId /\ post[q].hasId
        /\ r # q
        /\ toTimestamp(post[r].messageId) = toTimestamp(post[q].messageId)

(***************************************************************************)
(* Properties of the reads (SpecList).                                     *)
(***************************************************************************)
Range(seq) == { seq[i] : i \in 1..Len(seq) }
Smaller(a, b) == IF a < b THEN a ELSE b

\* A page was answered to request g.
ReadOk(g) == get[g].pc = "done" /\ get[g].resp.ok

\* The ids of the page, read back from the message_id strings of its items.
PageIds(g) == [i \in 1..Len(get[g].resp.items) |->
                  IdFromString(get[g].resp.items[i].message_id)]

\* The ids stored in the channel request g asks for.
ChannelIds(g) == { m.message_id :
                     m \in { x \in messages : x.channel_id = get[g].channelId.s } }

StrictlyDescending(page) ==
    \A i, j \in 1..Len(page) : i < j => IdLess(page[j], page[i])

\* The page holds the min(limit, |candidates|) greatest candidates,
\* newest first.
GreatestOf(page, candidates, limit) ==
    /\ Len(page) = Smaller(limit, Cardinality(candidates))
    /\ Range(page) \subseteq candidates
    /\ StrictlyDescending(page)
    /\ \A c \in candidates \ Range(page) : \A i \in 1..Len(page) :
           IdLess(c, page[i])

\* The page holds the min(limit, |candidates|) smallest candidates,
\* newest first.
SmallestOf(page, candidates, limit) ==
    /\ Len(page) = Smaller(limit, Cardinality(candidates))
    /\ Range(page) \subseteq candidates
    /\ StrictlyDescending(page)
    /\ \A c \in candidates \ Range(page) : \A i \in 1..Len(page) :
           IdLess(page[i], c)

NoCursor(g) == ~Truthy(get[g].query.before) /\ ~Truthy(get[g].query.after)

\* C5: a read without cursor returns the min(limit, K) messages of the
\* channel with the greatest ids, in strictly descending order.
C5_NoCursorReturnsNewest ==
    \A g \in GetIds :
        (ReadOk(g) /\ NoCursor(g))
        => /\ GreatestOf(PageIds(g), ChannelIds(g), get[g].limit)
           /\ \A i \in 1..Len(get[g].resp.items) :
                  get[g].resp.items[i].channel_id = get[g].channelId.s

\* The channel holds more messages than the limit, and the other channel
\* holds one too.
C5_Witness ==
    \E g \in GetIds :
        /\ ReadOk(g) /\ NoCursor(g)
        /\ Cardinality(ChannelIds(g)) > get[g].limit
        /\ \E m \in messages : m.channel_id # get[g].channelId.s

BeforeId(g) == IdFromString(get[g].query.before.s)
AfterId(g) == IdFromString(get[g].query.after.s)

\* C6: a read with before = X returns the up-to-limit greatest ids of the
\* channel that are strictly less than X, in strictly descending order; X
\* itself is not returned.
C6_BeforeIsExclusive ==
    \A g \in GetIds :
        (ReadOk(g) /\ Truthy(get[g].query.before))
        => /\ GreatestOf(PageIds(g),
                  { id \in ChannelIds(g) : IdLess(id, BeforeId(g)) },
                  get[g].limit)
           /\ BeforeId(g) \notin Range(PageIds(g))

\* X is stored in the channel, with an older message that is returned.
C6_Witness ==
    \E g \in GetIds :
        /\ ReadOk(g) /\ Truthy(get[g].query.before)
        /\ BeforeId(g) \in ChannelIds(g)
        /\ Len(get[g].resp.items) > 0

\* C7: a read with after = X returns only ids strictly greater than X, and
\* of these the up-to-limit ids nearest to X, in descending order.
C7_AfterReturnsNearest ==
    \A g \in GetIds :
        (ReadOk(g) /\ Truthy(get[g].query.after))
        => SmallestOf(PageIds(g),
               { id \in ChannelIds(g) : IdLess(AfterId(g), id) },
               get[g].limit)

\* C8: next_before is the message_id of the last item of the page, which
\* is its smallest id, and it is null exactly when the page is empty.
C8_NextBeforeIsLastItem ==
    \A g \in GetIds :
        ReadOk(g)
        => LET items == get[g].resp.items
               next == get[g].resp.next_before
           IN  IF Len(items) = 0 THEN next = Null
               ELSE /\ next = Str(items[Len(items)].message_id)
                    /\ \A i \in 1..Len(items) :
                           ~IdLess(PageIds(g)[i], IdFromString(next.s))

\* A page of two items was answered.
C8_Witness ==
    \E g \in GetIds : ReadOk(g) /\ Len(get[g].resp.items) = 2

(***************************************************************************)
(* Properties of a pagination run (SpecPager).                             *)
(***************************************************************************)
\* Pages 1..g were answered and form a run: the first has no cursor, each
\* further one passes the next_before of the page before it, same limit.
IsRun(g) ==
    /\ \A h \in 1..g : ReadOk(h) /\ get[h].limit = get[1].limit
    /\ NoCursor(1)
    /\ \A h \in 2..g : /\ get[h].query.before = get[h - 1].resp.next_before
                       /\ ~Truthy(get[h].query.after)

\* The run has stopped at page g.
RunEnded(g) == IsRun(g) /\ get[g].resp.next_before = Null

\* Every read of the run found the same messages in the channel.
FixedDataset(g) == \A h \in 1..g : get[h].seen = get[1].seen

RECURSIVE Concatenation(_)
Concatenation(g) ==
    IF g = 0 THEN <<>> ELSE Concatenation(g - 1) \o PageIds(g)

\* C4: over a fixed dataset of K messages, the pages of a run with limit L
\* are pairwise disjoint, their concatenation is the descending listing of
\* the channel truncated where the run stands, the run stops exactly at the
\* first page that finds nothing left (page g with (g-1)*L >= K), and then
\* the concatenation is the whole channel.
C4_PaginationCoversFixedDataset ==
    \A g \in GetIds :
        (IsRun(g) /\ FixedDataset(g))
        => LET D == get[1].seen
               L == get[1].limit
               cat == Concatenation(g)
           IN  /\ GreatestOf(cat, D, g * L)
               /\ RunEnded(g) <=> (g - 1) * L >= Cardinality(D)
               /\ RunEnded(g) => Range(cat) = D /\ Len(cat) = Cardinality(D)

\* A run of three pages with limit 1 over two messages has ended.
C4_Witness ==
    /\ RunEnded(3) /\ FixedDataset(3)
    /\ Cardinality(get[1].seen) = 2
    /\ Len(PageIds(1)) = 1 /\ Len(PageIds(2)) = 1

InsertApplied(r) ==
    /\ post[r].pc \in {"insertDone", "done"}
    /\ post[r].ops # <<>>
    /\ post[r].ops[Len(post[r].ops)] = "insert"
    /\ ~post[r].failed

\* The row request r sends to insertMessage.
SentRow(r) ==
    [channel_id |-> post[r].data.channel_id.s,
     message_id |-> post[r].messageId,
     user_id |-> post[r].data.user_id.s,
     content |-> post[r].data.content.s,
     created_at |-> post[r].createdAt]

\* C11: no two stored messages of one channel share a message_id: the ids
\* given to different requests differ, so that no insert replaces the row
\* of another request and every applied insert still has its own row.
C11_MessageIdsDistinct ==
    /\ \A m, n \in messages :
           (m.channel_id = n.channel_id /\ m.message_id = n.message_id)
           => m = n
    /\ \A r, q \in PostIds :
           (r # q /\ post[r].hasId /\ post[q].hasId)
           => post[r].messageId # post[q].messageId
    /\ \A r \in PostIds : InsertApplied(r) => SentRow(r) \in messages
    /\ Cardinality(messages)
           = Cardinality({ r \in PostIds : InsertApplied(r) })

\* Two appends to one channel within the same millisecond are both stored.
C11_Witness ==
    \E r, q \in PostIds :
        /\ r # q
        /\ InsertApplied(r) /\ InsertApplied(q)
        /\ post[r].data.channel_id = post[q].data.channel_id
        /\ post[r].messageId.time = post[q].messageId.time

\* C12: every stored message has created_at equal to the timestamp embedded
\* in its own message_id.
C12_CreatedAtFromId ==
    \A m \in messages : m.created_at = m.message_id.time

\* A message was stored after the clock had moved on from the millisecond
\* of its id, and one whose id carries ticks is stored.
C12_Witness ==
    /\ \E m \in messages : m.created_at < clock
    /\ \E m \in messages : m.message_id.ticks > 0

\* The claim of request r was accepted and its insert has not been applied:
\* the request waits, was cut off, or the insert failed.
Orphaned(r) ==
    /\ ClaimReturned(r)
    /\ post[r].isUnique
    /\ ~InsertApplied(r)

\* C14: while an accepted claim has no applied insert, its DedupRecord is
\* stored without a message of that key, and every other request with the
\* same (channel_id, client_key) whose claim returned was rejected, sends no
\* insert and, once answered, is answered Deduplicated.
C14_OrphanedKeySuppressesResend ==
    \A r \in PostIds :
        Orphaned(r)
        => /\ [channel_id |-> post[r].data.channel_id.s,
               client_msg_id |-> post[r].data.client_msg_id.s]
                  \in message_dedupe
           /\ \A q \in SameClaim(r) : ~InsertApplied(q)
           /\ \A q \in SameClaim(r) \ {r} :
                  /\ ~post[q].isUnique
                  /\ ~post[q].hasId
                  /\ post[q].ops = <<"claim">>
                  /\ post[q].pc = "done" => Deduplicated(q)

\* The insert after an accepted claim failed and was answered with an
\* error; a resend of the key was answered Deduplicated; no message is
\* stored.
C14_Witness ==
    \E r, q \in PostIds :
        /\ r # q
        /\ Orphaned(r) /\ post[r].failed /\ post[r].pc = "done"
        /\ q \in SameClaim(r)
        /\ Deduplicated(q)
        /\ messages = {}

\* C15: every step keeps every stored Message and every DedupRecord, with
\* the same fields.
C15_StoresAppendOnly ==
    [][/\ messages \subseteq messages'
       /\ message_dedupe \subseteq message_dedupe']_vars

\* Two messages and a DedupRecord are stored.
C15_Witness ==
    /\ Cardinality(messages) = 2
    /\ message_dedupe # {}

(***************************************************************************)
(* Channel isolation (SpecChannels).                                       *)
(***************************************************************************)
\* The channels whose stored rows a step changes.
TouchedChannels ==
    { m.channel_id : m \in (messages' \ messages) \cup (messages \ messages') }

\* C13: every answered page of channel c holds only stored messages of c,
\* and a step that appends to one channel leaves the listing of every other
\* channel as it was.
C13_ChannelIsolation ==
    [][/\ \A g \in GetIds :
              ReadOk(g)' =>
                 \A i \in 1..Len(get'[g].resp.items) :
                    LET item == get'[g].resp.items[i]
                    IN  /\ item.channel_id = get'[g].channelId.s
                        /\ item.content = get'[g].channelId.s
                        /\ \E m \in messages' :
                               /\ m.channel_id = get'[g].channelId.s
                               /\ IdToString(m.message_id) = item.message_id
       /\ Cardinality(TouchedChannels) <= 1
       /\ \A c \in ChannelInputs :
              c.s \notin TouchedChannels =>
                 \A limit \in 1..3 :
                    getMessagesRows(messages', c.s, limit, Undefined, Undefined)
                      = getMessagesRows(messages, c.s, limit, Undefined, Undefined)
      ]_vars

\* A page of one channel was answered with its one message, which is not
\* the newest stored: the other channel holds a message with a greater id.
C13_Witness ==
    \E g \in GetIds :
        /\ ReadOk(g)
        /\ Len(get[g].resp.items) = 1
        /\ \E m \in messages :
               /\ m.channel_id # get[g].channelId.s
               /\ IdLess(PageIds(g)[1], m.message_id)

(***************************************************************************)
(* Properties of input validation (SpecInputs).                            *)
(***************************************************************************)
GetStarted(g) == get[g].pc # "idle"

\* The request was answered with a validation error.
GetRejected(g) ==
    /\ get[g].pc = "done"
    /\ ~get[g].resp.ok
    /\ get[g].resp.error = "BAD_REQUEST"

\* The request has sent a statement to the storage.
GetReachedStorage(g) == get[g].ops # <<>>

\* C16: a list request that supplies both before and after is answered with
\* a validation error and sends nothing to the storage.
C16_BothCursorsRejected ==
    \A g \in GetIds :
        (/\ GetStarted(g)
         /\ Truthy(get[g].query.before)
         /\ Truthy(get[g].query.after))
        => /\ GetRejected(g)
           /\ ~GetReachedStorage(g)
           /\ get[g].rows = <<>>

\* A request whose only fault is that it carries two well-formed cursors
\* was rejected.
C16_Witness ==
    \E g \in GetIds :
        /\ GetRejected(g)
        /\ get[g].query.limit = Str(<<"1">>)
        /\ get[g].query.before = Str(<<"u","1","0">>)
        /\ get[g].query.after = Str(<<"u","1","0">>)

\* The text is a decimal integer: digits only.
IsIntegerText(s) == s # <<>> /\ \A i \in 1..Len(s) : IsDigit(s[i])

\* The limit parameter is absent, or an integer within [1, 100].
LimitAbsent(g) == ~Truthy(get[g].query.limit)
LimitInRange(g) ==
    /\ Truthy(get[g].query.limit)
    /\ IsIntegerText(get[g].query.limit.s)
    /\ DigitsValue(get[g].query.limit.s) \in 1..100

\* The cursors of the query are acceptable: not both, each well formed.
CursorsAcceptable(g) ==
    /\ ~(Truthy(get[g].query.before) /\ Truthy(get[g].query.after))
    /\ Truthy(get[g].query.before) => uuidRegexTest(get[g].query.before.s)
    /\ Truthy(get[g].query.after) => uuidRegexTest(get[g].query.after.s)

\* C17: a list request reaches the storage only with a limit that is an
\* integer in [1, 100], or with 20 when no limit was given; a limit that is
\* out of range or not an integer is rejected, and a limit in range is
\* accepted.
C17_LimitValidated ==
    \A g \in GetIds :
        GetStarted(g)
        => /\ GetReachedStorage(g) =>
                  IF LimitAbsent(g) THEN get[g].limit = 20
                  ELSE /\ LimitInRange(g)
                       /\ get[g].limit = DigitsValue(get[g].query.limit.s)
           /\ (~LimitAbsent(g) /\ ~LimitInRange(g)) => GetRejected(g)
           /\ ((LimitAbsent(g) \/ LimitInRange(g)) /\ CursorsAcceptable(g))
                  => ~GetRejected(g)

\* C18: the step in which an append or list request is answered with a
\* validation error is the first step of the request, sends nothing to the
\* storage and leaves both tables and the generator as they are.
C18_ValidationErrorTouchesNothing ==
    [][/\ \A r \in PostIds :
              (post'[r].resp.error = "BAD_REQUEST"
                   /\ post[r].resp.error # "BAD_REQUEST")
              => /\ post[r].pc = "idle"
                 /\ post'[r].pc = "done"
                 /\ post'[r].ops = <<>>
                 /\ ~post'[r].hasId
                 /\ messages' = messages
                 /\ message_dedupe' = message_dedupe
                 /\ ticksForCurrentTime' = ticksForCurrentTime
       /\ \A g \in GetIds :
              (get'[g].resp.error = "BAD_REQUEST"
                   /\ get[g].resp.error # "BAD_REQUEST")
              => /\ get[g].pc = "idle"
                 /\ get'[g].pc = "done"
                 /\ get'[g].ops = <<>>
                 /\ get'[g].rows = <<>>
                 /\ messages' = messages
                 /\ message_dedupe' = message_dedupe
      ]_vars

\* An append with a malformed client key and a list request with an ill
\* formed cursor were both answered with a validation error.
C18_Witness ==
    /\ \E r \in PostIds :
           /\ post[r].resp.error = "BAD_REQUEST"
           /\ post[r].body.client_msg_id = NotAString
    /\ \E g \in GetIds :
           /\ GetRejected(g)
           /\ get[g].query.before = Str(<<"z","z">>)
           /\ ~Truthy(get[g].query.after)
    /\ messages # {}
    /\ message_dedupe # {}

(***************************************************************************)
(* Properties of the consistency resolver (SpecInputs).                    *)
(***************************************************************************)
\* The eight recognized tokens, in upper case.
RecognizedTokens ==
    { <<"A","N","Y">>,
      <<"O","N","E">>,
      <<"T","W","O">>,
      <<"T","H","R","E","E">>,
      <<"Q","U","O","R","U","M">>,
      <<"A","L","L">>,
      <<"L","O","C","A","L","_","O","N","E">>,
      <<"L","O","C","A","L","_","Q","U","O","R","U","M">> }

\* The Level that corresponds to a recognized token.
LevelOf(name) ==
    CASE name = <<"A","N","Y">> -> consistencies(<<"a","n","y">>)
      [] name = <<"O","N","E">> -> consistencies(<<"o","n","e">>)
      [] name = <<"T","W","O">> -> consistencies(<<"t","w","o">>)
      [] name = <<"T","H","R","E","E">> -> consistencies(<<"t","h","r","e","e">>)
      [] name = <<"Q","U","O","R","U","M">> -> consistencies(<<"q","u","o","r","u","m">>)
      [] name = <<"A","L","L">> -> consistencies(<<"a","l","l">>)
      [] name = <<"L","O","C","A","L","_","O","N","E">> -> consistencies(<<"l","o","c","a","l","O","n","e">>)
      [] name = <<"L","O","C","A","L","_","Q","U","O","R","U","M">> -> consistencies(<<"l","o","c","a","l","Q","u","o","r","u","m">>)
      [] OTHER -> Undefined

PostValid(r) == Started(r) /\ validatePostMessage(post[r].body).valid

\* The request carries a token; recognized when it is one of the eight in
\* some letter case.
HasToken(r) == Truthy(post[r].body.consistency)
TokenRecognized(r) ==
    toUpperCase(post[r].body.consistency.s) \in RecognizedTokens

\* C19: for each of the eight recognized tokens, in any letter case, the
\* resolver returns the Level of that token and no warning (so that two
\* spellings of one token yield the same Level).
C19_RecognizedTokenResolved ==
    \A r \in PostIds :
        (PostValid(r) /\ HasToken(r) /\ TokenRecognized(r))
        => /\ post[r].consistencyResult.value
                  = LevelOf(toUpperCase(post[r].body.consistency.s))
           /\ post[r].consistencyResult.value # Undefined
           /\ post[r].consistencyResult.warning = Undefined

\* "Invalid consistency level '<token>', using default '<default>'"
InvalidLevelWarning(token, default) ==
    Str(<<"Invalid consistency level '">> \o token
        \o <<"', using default '">> \o default \o <<"'">>)

\* The name of the configured default of each kind of operation; ONE when
\* none is configured.
WriteDefaultName ==
    IF Truthy(env.DEFAULT_WRITE_CONSISTENCY)
    THEN env.DEFAULT_WRITE_CONSISTENCY.s ELSE <<"O","N","E">>
ReadDefaultName ==
    IF Truthy(env.DEFAULT_READ_CONSISTENCY)
    THEN env.DEFAULT_READ_CONSISTENCY.s ELSE <<"O","N","E">>

\* The list request passed validation and carries an unrecognized token.
GetUnrecognized(g) ==
    /\ GetStarted(g)
    /\ ~GetRejected(g)
    /\ Truthy(get[g].query.consistency)
    /\ toUpperCase(get[g].query.consistency.s) \notin RecognizedTokens

\* C20: for a present token that is not recognized the resolver returns the
\* configured default Level and the warning that names the token and the
\* default, and the request, when it succeeds, carries that warning in its
\* response.
C20_UnrecognizedTokenWarned ==
    /\ \A r \in PostIds :
           (PostValid(r) /\ HasToken(r) /\ ~TokenRecognized(r))
           => LET warning == InvalidLevelWarning(post[r].body.consistency.s,
                                                 WriteDefaultName)
              IN  /\ post[r].consistencyResult.value
                         = LevelOf(toUpperCase(WriteDefaultName))
                  /\ post[r].consistencyResult.value # Undefined
                  /\ post[r].consistencyResult.warning = warning
                  /\ CompletedOk(r) => post[r].resp.warning = warning
    /\ \A g \in GetIds :
           GetUnrecognized(g)
           => LET warning == InvalidLevelWarning(get[g].query.consistency.s,
                                                 ReadDefaultName)
              IN  /\ get[g].consistencyResult.value
                         = LevelOf(toUpperCase(ReadDefaultName))
                  /\ get[g].consistencyResult.warning = warning
                  /\ ReadOk(g) => get[g].resp.warning = warning

\* The list request passed validation and carries no token.
GetWithoutToken(g) ==
    /\ GetStarted(g)
    /\ ~GetRejected(g)
    /\ ~Truthy(get[g].query.consistency)

\* C21: without a consistency token an append is resolved to the configured
\* write default (ONE when none is configured) and a list request to the
\* configured read default, and neither the resolver nor the response
\* carries a warning.
C21_AbsentTokenUsesDefault ==
    /\ \A r \in PostIds :
           (PostValid(r) /\ ~HasToken(r))
           => /\ post[r].consistencyResult.value
                     = LevelOf(toUpperCase(WriteDefaultName))
              /\ post[r].consistencyResult.value # Undefined
              /\ post[r].consistencyResult.warning = Undefined
              /\ CompletedOk(r) => post[r].resp.warning = Undefined
    /\ \A g \in GetIds :
           (GetWithoutToken(g) /\ Truthy(env.DEFAULT_READ_CONSISTENCY))
           => /\ get[g].consistencyResult.value
                     = LevelOf(toUpperCase(env.DEFAULT_READ_CONSISTENCY.s))
              /\ get[g].consistencyResult.value # Undefined
              /\ get[g].consistencyResult.warning = Undefined
              /\ ReadOk(g) => get[g].resp.warning = Undefined

\* C22: the resolver always yields a defined Level: for every request that
\* passed validation, whatever its token and the configured defaults.
C22_LevelAlwaysDefined ==
    /\ \A r \in PostIds :
           PostValid(r) => post[r].consistencyResult.value.t = "number"
    /\ \A g \in GetIds :
           (GetStarted(g) /\ ~GetRejected(g))
           => get[g].consistencyResult.value.t = "number"

\* C23: a list request with an unrecognized token is executed at the
\* configured read default, and its warning names the read default,
\* whatever the write default is.
C23_ReadDefaultIndependent ==
    \A g \in GetIds :
        (GetUnrecognized(g) /\ Truthy(env.DEFAULT_READ_CONSISTENCY))
        => LET warning == InvalidLevelWarning(get[g].query.consistency.s,
                              env.DEFAULT_READ_CONSISTENCY.s)
           IN  /\ get[g].consistencyResult.value
                      = LevelOf(toUpperCase(env.DEFAULT_READ_CONSISTENCY.s))
               /\ get[g].consistencyResult.warning = warning
               /\ ReadOk(g) => get[g].resp.warning = warning

(***************************************************************************)
(* Storage failures (SpecInputs).                                          *)
(***************************************************************************)
\* the number of times a storage operation was issued by a request
Issued(ops, op) == Cardinality({ i \in 1..Len(ops) : ops[i] = op })

InternalError(resp) ==
    ~resp.ok /\ resp.error = "INTERNAL" /\ resp.status = 500

\* C24: a request issues each of claim, insert and read at most once; a
\* request whose storage operation failed issues no further operation and
\* is answered with the internal error.
C24_FailureSurfacedNotRetried ==
    /\ \A r \in PostIds :
          /\ Issued(post[r].ops, "claim") <= 1
          /\ Issued(post[r].ops, "insert") <= 1
          /\ Issued(post[r].ops, "read") = 0
          /\ post[r].failed
             => /\ post[r].pc \in {"dedupeDone", "insertDone", "done"}
                /\ ~post[r].hasId => post[r].ops = <<"claim">>
                /\ post[r].pc = "done" => InternalError(post[r].resp)
    /\ \A g \in GetIds :
          /\ get[g].ops \in {<<>>, <<"read">>}
          /\ get[g].failed
             => /\ get[g].pc \in {"readDone", "done"}
                /\ get[g].pc = "done" => InternalError(get[g].resp)

\* a claim failed, an insert failed after an accepted claim, or a read
\* failed, and the request was answered
C24_Witness ==
    /\ \E r \in PostIds :
          /\ post[r].pc = "done" /\ post[r].failed
          /\ post[r].ops = <<"claim", "insert">>
          /\ InternalError(post[r].resp)
    /\ \E g \in GetIds :
          /\ get[g].pc = "done" /\ get[g].failed
          /\ get[g].ops = <<"read">>
          /\ InternalError(get[g].resp)

(***************************************************************************)
(* The shape of the append responses (Spec).                               *)
(***************************************************************************)
\* C26: a successful append response is either Accepted, with the id of the
\* request's message and no deduped flag, or Deduplicated, with the deduped
\* flag and no id; a request whose claim was rejected is answered
\* Deduplicated, never with an error.
C26_AcceptedOrDeduplicated ==
    \A r \in PostIds :
        /\ CompletedOk(r)
           => /\ post[r].resp.status = 200
              /\ post[r].resp.error = ""
              /\ \/ /\ post[r].hasId
                    /\ post[r].resp.message_id
                           = Str(IdToString(post[r].messageId))
                    /\ ~post[r].resp.deduped
                 \/ /\ post[r].resp.deduped
                    /\ post[r].resp.message_id = Undefined
        /\ (Rejected(r) /\ post[r].pc = "done")
           => /\ post[r].resp.ok
              /\ post[r].resp.deduped
              /\ post[r].resp.error = ""

\* both kinds of successful response have been given
C26_Witness ==
    \E r, q \in PostIds :
        /\ CompletedOk(r) /\ post[r].hasId /\ ~post[r].resp.deduped
        /\ CompletedOk(q) /\ Rejected(q)
        /\ post[q].resp.message_id = Undefined

(***************************************************************************)
(* The order of the storage operations of a keyed append (Spec).           *)
(***************************************************************************)
\* a valid request whose body carries a client key
Keyed(r) ==
    /\ Started(r)
    /\ validatePostMessage(post[r].body).valid
    /\ Truthy(post[r].body.client_msg_id)

\* C30: a request that carries a client key issues the claim first and the
\* insert second, the insert and the id only after the claim returned
\* accepted; an Accepted request has issued exactly the two, and a request
\* that reached the storage has issued the claim.
C30_ClaimThenInsert ==
    \A r \in PostIds :
        Keyed(r)
        => /\ post[r].ops \in {<<>>, <<"claim">>, <<"claim", "insert">>}
           /\ post[r].hasId => (ClaimReturned(r) /\ post[r].isUnique)
           /\ Len(post[r].ops) = 2 => (post[r].isUnique /\ post[r].hasId)
           /\ Accepted(r) => post[r].ops = <<"claim", "insert">>
           /\ post[r].pc \in {"awaitDedupe", "dedupeDone", "awaitInsert",
                               "insertDone"}
              => post[r].ops[1] = "claim"

(***************************************************************************)
(* Appends made one after another (SpecSequential).                        *)
(***************************************************************************)
\* The ids of the messages the channel held when request g read it, in the
\* order in which their appends were made.
AppendOrder(g) ==
    LET Appended(r) == post[r].hasId /\ post[r].messageId \in get[g].seen
        requests == SelectSeq([r \in PostIds |-> r], Appended)
    IN  [i \in 1..Len(requests) |-> post[requests[i]].messageId]

\* C27: when the appends to a channel are made one after another, a listing
\* without cursor is the reverse of the append order, cut to the limit: a
\* page of limit n holds the n messages appended last, newest first.
C27_ListingReversesAppendOrder ==
    \A g \in GetIds :
        ReadOk(g)
        => LET order == AppendOrder(g)
               n == Smaller(get[g].limit, Len(order))
           IN  PageIds(g) = [i \in 1..n |-> order[Len(order) + 1 - i]]

\* two messages were appended one after the other and a page of limit 1
\* holds the second one only
C27_Witness ==
    \E g \in GetIds :
        /\ ReadOk(g)
        /\ get[g].limit = 1
        /\ Len(AppendOrder(g)) = 2
        /\ PageIds(g) = <<AppendOrder(g)[2]>>

(***************************************************************************)
(* Requests before the storage connection (SpecStartup).                   *)
(***************************************************************************)
\* the step starts the valid append request r
PostArrives(r) ==
    /\ post[r].pc = "idle"
    /\ post'[r].pc # "idle"
    /\ validatePostMessage(post'[r].body).valid

\* the step starts the valid list request g
GetArrives(g) ==
    /\ get[g].pc = "idle"
    /\ get'[g].pc # "idle"
    /\ ~GetRejected(g)'

StorageUntouched ==
    /\ messages' = messages
    /\ message_dedupe' = message_dedupe
    /\ client' = client

\* C25: a valid append or list request that arrives before the storage
\* connection is made is answered at once with the internal error, issues
\* no storage operation and leaves the tables, the connection and every
\* other request as they were; one that arrives after the connection was
\* made goes to the storage, and is answered successfully unless a storage
\* operation fails.
C25_NotInitializedFailsRequestOnly ==
    [][/\ \A r \in PostIds :
            /\ PostArrives(r)
               => IF ~client
                  THEN /\ post'[r].pc = "done"
                       /\ InternalError(post'[r].resp)
                       /\ post'[r].ops = <<>>
                       /\ StorageUntouched
                       /\ \A q \in PostIds \ {r} : post'[q] = post[q]
                       /\ get' = get
                  ELSE /\ post'[r].pc \in {"awaitDedupe", "awaitInsert"}
                       /\ post'[r].ops # <<>>
            /\ (post'[r].pc = "done" /\ post'[r].ops # <<>>
                   /\ ~post'[r].failed)
               => post'[r].resp.ok
       /\ \A g \in GetIds :
            /\ GetArrives(g)
               => IF ~client
                  THEN /\ get'[g].pc = "done"
                       /\ InternalError(get'[g].resp)
                       /\ get'[g].ops = <<>>
                       /\ StorageUntouched
                       /\ \A q \in GetIds \ {g} : get'[q] = get[q]
                       /\ post' = post
                  ELSE /\ get'[g].pc = "awaitRead"
                       /\ get'[g].ops = <<"read">>
            /\ (get'[g].pc = "done" /\ get'[g].ops # <<>>
                   /\ ~get'[g].failed)
               => get'[g].resp.ok
      ]_vars

\* an append and a list request were refused before the connection was
\* made, and after it a later append was accepted and a later listing
\* shows its message
C25_Witness ==
    /\ client
    /\ post[1].pc = "done" /\ post[1].ops = <<>>
    /\ InternalError(post[1].resp)
    /\ validatePostMessage(post[1].body).valid
    /\ get[1].pc = "done" /\ get[1].ops = <<>>
    /\ InternalError(get[1].resp)
    /\ Accepted(2)
    /\ ReadOk(2)
    /\ PageIds(2) = <<post[2].messageId>>

(***************************************************************************)
(* Concurrent appends with different client keys (SpecStartup).            *)
(***************************************************************************)
\* the append requests that were made
Arrived == { r \in PostIds : Started(r) }

\* no two of the requests carry the same client key
KeysDistinct ==
    \A r, q \in Arrived :
        (r # q /\ Truthy(post[r].body.client_msg_id))
        => post[r].body.client_msg_id # post[q].body.client_msg_id

\* every request reached the storage and no storage operation failed
NoStorageFailure ==
    \A r \in Arrived : post[r].ops # <<>> /\ ~post[r].failed

\* C28: when the appends made to channel "a", with pairwise different
\* client keys or none, have all been answered and none met a storage
\* failure, all of them are Accepted, their ids are pairwise different and
\* the channel, empty at the start, holds one message for each of them.
C28_ConcurrentAppendsAllAccepted ==
    (/\ KeysDistinct
     /\ NoStorageFailure
     /\ \A r \in Arrived : post[r].pc = "done")
    => /\ \A r \in Arrived : Accepted(r)
       /\ \A r, q \in Arrived :
              r # q => post[r].resp.message_id # post[q].resp.message_id
       /\ Cardinality({ m \in messages : m.channel_id = <<"a">> })
              = Cardinality(Arrived)
       /\ \A r \in Arrived :
              \E m \in messages :
                  /\ m.channel_id = <<"a">>
                  /\ Str(IdToString(m.message_id)) = post[r].resp.message_id

\* two keyed appends overlapped (the one that arrived second took its id
\* first), every request of the run was made with
\* its own key and all were Accepted
C28_Witness ==
    /\ Cardinality(Arrived) = MaxPosts
    /\ KeysDistinct
    /\ NoStorageFailure
    /\ \A r \in Arrived : Accepted(r)
    /\ Truthy(post[1].body.client_msg_id)
    /\ Truthy(post[2].body.client_msg_id)
    /\ IdLess(post[2].messageId, post[1].messageId)

(***************************************************************************)
(* The dedup key is the pair of channel and client key (Spec).             *)
(***************************************************************************)
\* the claim of request r was applied
ClaimAccepted(r) == ClaimReturned(r) /\ post[r].isUnique

\* C31: a claim is rejected only when another request claimed the same
\* client key in the same channel before: a claim of the key in another
\* channel never makes an append Deduplicated.
C31_DedupKeyIsPair ==
    \A r \in PostIds :
        Rejected(r)
        => \E q \in PostIds \ {r} :
               /\ ClaimAccepted(q)
               /\ post[q].data.channel_id = post[r].data.channel_id
               /\ post[q].data.client_msg_id = post[r].data.client_msg_id

\* the key was claimed in one channel and its message got an id, and the
\* append with the same key in the other channel, which took its id later,
\* was Accepted after a claim of its own
C31_Witness ==
    /\ ClaimAccepted(1)
    /\ Accepted(2)
    /\ post[2].ops = <<"claim", "insert">>
    /\ post[1].data.client_msg_id = post[2].data.client_msg_id
    /\ post[1].data.channel_id # post[2].data.channel_id
    /\ post[1].hasId
    /\ IdLess(post[1].messageId, post[2].messageId)

(***************************************************************************)
(* The Dedup Guard and the stored messages (Spec).                         *)
(***************************************************************************)
\* C34: a valid request whose body supplies a client key sends no insert
\* without an accepted claim of its own before it, also when the key is
\* white space only.
C34_KeyedInsertFollowsClaim ==
    \A r \in PostIds :
        (Keyed(r) /\ "insert" \in Range(post[r].ops))
        => /\ post[r].ops[1] = "claim"
           /\ post[r].isUnique
           /\ [channel_id |-> post[r].data.channel_id.s,
               client_msg_id |-> post[r].data.client_msg_id.s]
                  \in message_dedupe

\* C37: each stored message that comes from a request carrying a client
\* key has the dedup record of its channel and key in the dedup table.
C37_StoredKeyedMessageHasRecord ==
    \A r \in PostIds :
        (Keyed(r) /\ InsertApplied(r) /\ SentRow(r) \in messages)
        => \E d \in message_dedupe :
               /\ d.channel_id = post[r].data.channel_id.s
               /\ d.client_msg_id \in { post[r].body.client_msg_id.s,
                                         Trim(post[r].body.client_msg_id.s) }

(***************************************************************************)
(* Trimmed fields (SpecTrim).                                              *)
(***************************************************************************)
\* C32: every stored message has a channel_id and a user_id of 1 to 100
\* characters and a content of 1 to 2000 characters.
C32_StoredFieldsWithinLength ==
    \A m \in messages :
        /\ Len(m.channel_id) >= 1 /\ Len(m.channel_id) <= MaxIdLen
        /\ Len(m.user_id) >= 1 /\ Len(m.user_id) <= MaxIdLen
        /\ Len(m.content) >= 1 /\ Len(m.content) <= MaxContentLen

\* text without the white space around it, character by character
RECURSIVE Stripped(_)
Stripped(s) ==
    IF s = <<>> THEN <<>>
    ELSE IF Head(s) = " " THEN Stripped(Tail(s))
    ELSE IF s[Len(s)] = " " THEN Stripped(SubSeq(s, 1, Len(s) - 1))
    ELSE s

\* requests r and q append to one channel with client keys that are the
\* same text once the white space around them is removed
SameStrippedKey(r, q) ==
    /\ Keyed(r) /\ Keyed(q)
    /\ Stripped(post[r].body.channel_id.s) = Stripped(post[q].body.channel_id.s)
    /\ Stripped(post[r].body.client_msg_id.s)
           = Stripped(post[q].body.client_msg_id.s)

\* C33: a valid request works with its fields stripped of the white space
\* around them, in the row it sends and in the dedup key it claims; of two
\* answered appends to one channel whose client keys differ only in the
\* white space around them, the one whose claim came second is
\* Deduplicated, and one dedup record serves both.
C33_TrimmedValuesUsed ==
    /\ \A r \in PostIds :
          PostValid(r)
          => /\ post[r].data.channel_id.s = Stripped(post[r].body.channel_id.s)
             /\ post[r].data.user_id.s = Stripped(post[r].body.user_id.s)
             /\ post[r].data.content.s = Stripped(post[r].body.content.s)
             /\ Truthy(post[r].body.client_msg_id)
                => post[r].data.client_msg_id.s
                       = Stripped(post[r].body.client_msg_id.s)
             /\ post[r].hasId
                => /\ SentRow(r).channel_id = Stripped(post[r].body.channel_id.s)
                   /\ SentRow(r).user_id = Stripped(post[r].body.user_id.s)
                   /\ SentRow(r).content = Stripped(post[r].body.content.s)
    /\ \A r, q \in PostIds :
          (/\ r # q
           /\ SameStrippedKey(r, q)
           /\ post[r].body.client_msg_id # post[q].body.client_msg_id
           /\ CompletedOk(r) /\ CompletedOk(q))
          => /\ Deduplicated(r) \/ Deduplicated(q)
             /\ Cardinality({ d \in message_dedupe :
                     /\ d.channel_id = Stripped(post[r].body.channel_id.s)
                     /\ Stripped(d.client_msg_id)
                            = Stripped(post[r].body.client_msg_id.s) }) = 1

(***************************************************************************)
(* The warning of the resolver in the responses (SpecInputs).              *)
(***************************************************************************)
\* C35: when the resolver gave a warning for a request, the successful
\* response to it carries that warning: Accepted, Deduplicated and a list
\* page alike.
C35_WarningCarried ==
    /\ \A r \in PostIds :
          (CompletedOk(r) /\ Truthy(post[r].consistencyResult.warning))
          => post[r].resp.warning = post[r].consistencyResult.warning
    /\ \A g \in GetIds :
          (ReadOk(g) /\ Truthy(get[g].consistencyResult.warning))
          => get[g].resp.warning = get[g].consistencyResult.warning

(***************************************************************************)
(* Appends without a client key (SpecStartup).                             *)
(***************************************************************************)
\* a valid request whose body has no client key
Keyless(r) ==
    /\ Started(r)
    /\ validatePostMessage(post[r].body).valid
    /\ ~Truthy(post[r].body.client_msg_id)

\* C36: a request without a client key issues no claim, is never answered
\* Deduplicated, and no step of it changes the dedup table; the keyless
\* appends whose insert was applied have each their own stored message,
\* also when their channel, user and content are the same.
C36_KeylessSkipsDedup ==
    [][\A r \in PostIds :
          Keyless(r)'
          => /\ "claim" \notin Range(post'[r].ops)
             /\ ~post'[r].resp.deduped
             /\ post'[r] # post[r] => message_dedupe' = message_dedupe
             /\ InsertApplied(r)'
                => /\ SentRow(r)' \in messages'
                   /\ \A q \in PostIds \ {r} :
                          (Keyless(q)' /\ InsertApplied(q)')
                          => SentRow(q)' # SentRow(r)'
      ]_vars

\* two keyless appends with the same channel, user and content were both
\* Accepted and the channel holds two messages, with no dedup record
C36_Witness ==
    /\ Keyless(1) /\ Keyless(2)
    /\ post[1].body = post[2].body
    /\ Accepted(1) /\ Accepted(2)
    /\ Cardinality(messages) = 2
    /\ message_dedupe = {}

(***************************************************************************)
(* Appends answered with an error (Spec).                                  *)
(***************************************************************************)
\* request r has been answered with an error
AnsweredError(r) == post[r].pc = "done" /\ ~post[r].resp.ok

ErrorStatusOk(resp) ==
    IF env.USE_SOFT_ERRORS
    THEN resp.status = 200
    ELSE resp.status \in {400, 404, 500, 503}

\* C39: every error response, of the append, list and health endpoints and
\* of the 404 handler, has status 200 when USE_SOFT_ERRORS is enabled, and
\* one of the statuses 400, 404, 500 and 503 when it is disabled.
C39_SoftErrorsEverywhere ==
    /\ \A r \in PostIds :
          (post[r].pc = "done" /\ ~post[r].resp.ok)
          => ErrorStatusOk(post[r].resp)
    /\ \A g \in GetIds :
          (get[g].pc = "done" /\ ~get[g].resp.ok)
          => ErrorStatusOk(get[g].resp)

====
